---- MODULE Spec2Model ----
(***************************************************************************)
(* A model of the mcpx daemon (badri/mcpx): the command handlers of        *)
(* daemon.go and their client pool and tools cache, the MCPClient          *)
(* handshake of mcp.go, the process supervisor of local.go and the         *)
(* daemon's Run loop with its shutdown path.                               *)
(*                                                                         *)
(* Every goroutine is a small program counter; one action is one step      *)
(* between two points at which another goroutine can observe or change     *)
(* shared state (a critical section of d.mu or m.mu is one action).        *)
(* Fields that carry the suffix "G" or are described as "ghost" are        *)
(* history variables: the program does not read them.                      *)
(***************************************************************************)
EXTENDS Integers, Sequences, FiniteSets, TLC

\* ------------------------------------------------------------------ bounds
MaxReloadConns == 2  \* connections the CLI side opens: the reload specification,
MaxCacheConns == 3   \* the cache specification,
MaxCommandConns == 2 \* the command specification,
MaxSessionConns == 2 \* the session specification,
MaxTokenConns == 1   \* the token specification,
MaxProtocolConns == 2 \* the protocol specification,
MaxAbsentConns == 3  \* the removed-server specification,
MaxLifeConns == 2    \* and the lifecycle specification
MaxWrites == 1       \* times servers.json is rewritten while the daemon runs
MaxTime == 300     \* the clock stops advancing here (seconds)
ClockStep == 150   \* granularity of the clock (seconds)
MaxProcs == 3      \* LocalProcess objects the supervisor may construct
MaxCallbacks == 2  \* requests the OAuth callback listener receives during one flow
MaxBodyLen == 5     \* pieces of a response body handed to parseSSEResponse
MaxStarts == 2      \* `mcpx --daemon` invocations
MaxPinnedConns == 3 \* connections in the pinned-transport specification,
MaxLocalReloadConns == 2 \* the local-reload specification
MaxStoreConns == 2  \* and the sessions-store specification

\* --------------------------------------------------------- program constants
ToolsCacheTTL == 300
TokenSkew == 60

\* ------------------------------------------------------------- data domains
\* expiry times of stored tokens: none, and times on either side of the 60s buffer at
\* each value of the clock
TokenExpiries ==
  {0, TokenSkew, ClockStep + TokenSkew - 1, ClockStep + TokenSkew, MaxTime + TokenSkew + 1}

Names == {"s1", "s2"}
ToolLists == {"toolsA", "toolsB"}
SessionIds == {"", "sidX"}
RotatingSessionIds == SessionIds \cup {"sidY"}
\* what sessions.json may hold for a server when the daemon starts: nothing, or an id that
\* an earlier process stored, which the server may or may not issue again
StoredSessionIds == SessionIds \cup {"sidOld"}

\* A ServerConfig; present = FALSE is Go's zero value for a missing map key.
Absent == [present |-> FALSE, url |-> "", sessionBased |-> FALSE, local |-> FALSE, oauth |-> FALSE]
ServerConfig(u, sb, loc, oa) ==
  [present |-> TRUE, url |-> u, sessionBased |-> sb, local |-> loc, oauth |-> oa]

Base1 == ServerConfig("urlA", FALSE, FALSE, TRUE)
Base2 == ServerConfig("urlC", TRUE, FALSE, FALSE)
Local2 == [Base2 EXCEPT !.local = TRUE]

NoServers == [n \in Names |-> Absent]
BaseServers == [n \in Names |-> IF n = "s1" THEN Base1 ELSE Base2]
LocalServers == [n \in Names |-> IF n = "s1" THEN Base1 ELSE Local2]
OneServer == [n \in Names |-> IF n = "s1" THEN Base1 ELSE Absent]

\* The content of servers.json: valid = FALSE is a file json.Unmarshal rejects.
ConfigFileOf(servers) == [valid |-> TRUE, servers |-> servers]
CorruptFile == [valid |-> FALSE, servers |-> NoServers]

\* TokenData of tokens.json
NoToken == [present |-> FALSE, AccessToken |-> "", RefreshToken |-> "", ExpiresAt |-> 0]
TokenData(a, r, e) == [present |-> TRUE, AccessToken |-> a, RefreshToken |-> r, ExpiresAt |-> e]

\* CachedTools; present = FALSE is a missing map key.
NoCache == [present |-> FALSE, Tools |-> "", Expires |-> 0]
CachedTools(t, e) == [present |-> TRUE, Tools |-> t, Expires |-> e]

\* Response
NoResponse == [sent |-> FALSE, OK |-> FALSE, Code |-> "", Data |-> ""]
okResponse(data) == [sent |-> TRUE, OK |-> TRUE, Code |-> "", Data |-> data]
\* (an errResponse that leaves the Error pointer nil)
errResponseNoError(code) == [sent |-> TRUE, OK |-> FALSE, Code |-> "", Data |-> ""]
errResponse(code) == [sent |-> TRUE, OK |-> FALSE, Code |-> code, Data |-> ""]

ErrorCodes ==
  {"DAEMON_NOT_RUNNING", "CONNECTION_FAILED", "TIMEOUT", "AUTH_EXPIRED", "UNKNOWN_TOOL",
   "INVALID_ARGS", "SCHEMA_ERROR", "MCP_ERROR", "PARSE_ERROR", "NOT_FOUND", "EXISTS",
   "MISSING_DEP", "INVALID_JSON", "DAEMON_ERROR", "UNKNOWN_ACTION"}

\* DaemonCommand; wellFormed = FALSE is a frame json.Decode rejects.
DaemonCommand(a, s, t) == [wellFormed |-> TRUE, Action |-> a, Server |-> s, Tool |-> t]
Garbage == [wellFormed |-> FALSE, Action |-> "", Server |-> "", Tool |-> ""]

KnownActions == {"ping", "servers", "tools", "call", "status", "reload", "shutdown"}

\* The commands the CLI side sends in the reload and the cache specification ...
ReloadCommands ==
  {DaemonCommand("tools", "s1", ""), DaemonCommand("call", "s2", "t"),
   DaemonCommand("reload", "", "")}
CacheCommands ==
  {DaemonCommand("tools", "s1", ""), DaemonCommand("call", "s1", "t")}
\* ... and in the lifecycle specification
CommandCommands ==
  {DaemonCommand("ping", "", ""), DaemonCommand("invalid-action", "", ""),
   DaemonCommand("call", "s1", "t")}
TokenCommands == {DaemonCommand("call", "s1", "t")}
LocalReloadCommands == {DaemonCommand("reload", "", ""), DaemonCommand("call", "s2", "t")}
SessionCommands == {DaemonCommand("call", "s1", "t"), DaemonCommand("call", "s2", "t")}
LifeCommands == {DaemonCommand("shutdown", "", ""), DaemonCommand("ping", "", "")}
\* ... in the removed-server specification
AbsentCommands ==
  {DaemonCommand("tools", "s1", ""), DaemonCommand("call", "s1", "t"),
   DaemonCommand("reload", "", "")}
\* ... and in the protocol specification: every branch of handleConnection and
\* handleCommand, with s2 a server the config does not have
ProtocolCommands ==
  {Garbage,
   DaemonCommand("ping", "", ""), DaemonCommand("servers", "", ""),
   DaemonCommand("status", "", ""), DaemonCommand("reload", "", ""),
   DaemonCommand("shutdown", "", ""), DaemonCommand("invalid-action", "", ""),
   DaemonCommand("tools", "", ""), DaemonCommand("call", "", "t"),
   DaemonCommand("call", "s1", ""),
   DaemonCommand("tools", "s1", ""), DaemonCommand("call", "s1", "t"),
   DaemonCommand("call", "s2", "t")}


\* ---------------------------------------------------------------- variables
VARIABLES
  configFile,   \* servers.json (ConfigStore)
  writes,       \* how often servers.json has been rewritten
  tokens,       \* tokens.json: server name -> TokenData
  sessions,     \* sessions.json: server name -> session id ("" = no entry)
  now,          \* the clock, in seconds
  config,       \* d.config.Servers
  clients,      \* d.clients: server name -> index into clientObjs, 0 = no entry
  clientObjs,   \* every MCPClient constructed so far
  toolsCache,   \* d.toolsCache
  running,      \* d.running
  listener,     \* "none", "open", "closed"
  socketFile,   \* daemon.sock exists
  pidFile,      \* daemon.pid exists
  mainPc,       \* where the goroutine of Run is
  mainTodo,     \* the local servers startLocalServers has still to start
  mainStop,     \* the StopAll that Run's cleanup executes: procs left, proc being stopped
  sigPending,   \* a SIGTERM/SIGINT was delivered and not yet handled
  conn,         \* one record per connection: the CLI side and its handler goroutine
  processes,    \* m.processes: server name -> index into procs, 0 = no entry
  procs,        \* every LocalProcess constructed so far
  monitor,      \* the monitorProcess goroutine of each server name
  fetchedG,     \* ghost: per server, the entries that successful tools commands stored
                \* since the last eviction (expired ones are dropped at the next store)
  oauth,        \* the `mcpx auth` process: DoOAuthFlow and its OAuthCallbackServer
  probe,        \* one application of a pure function: its input and its result
  boot          \* the daemon processes of one user, the `mcpx --daemon` commands that
                \* start them, and the two files they share: daemon.sock and daemon.pid

vars ==
  <<configFile, writes, tokens, sessions, now, config, clients, clientObjs, toolsCache, running,
    listener, socketFile, pidFile, mainPc, mainTodo, mainStop, sigPending, conn, processes,
    procs, monitor, fetchedG, oauth, probe, boot>>

storeVars == <<configFile, writes, tokens, sessions>>
daemonVars == <<config, clients, clientObjs, toolsCache, running>>
sideVars == <<oauth, probe, boot>>
runVars == <<listener, socketFile, pidFile, mainPc, mainTodo, mainStop, sigPending>>
superVars == <<processes, procs, monitor>>

\* ------------------------------------------------------------- pure helpers
\* What the token endpoint may answer to a refresh request: ok is status 200 with a body
\* that decodes, and a field the body lacks is left at its zero value.
TokenAnswers ==
  {[ok |-> FALSE, AccessToken |-> "", RefreshToken |-> "", ExpiresIn |-> 0],
   [ok |-> TRUE, AccessToken |-> "", RefreshToken |-> "", ExpiresIn |-> 0],
   [ok |-> TRUE, AccessToken |-> "tok2", RefreshToken |-> "", ExpiresIn |-> 0],
   [ok |-> TRUE, AccessToken |-> "tok3", RefreshToken |-> "ref2", ExpiresIn |-> ToolsCacheTTL]}

\* RefreshOAuthToken: the new access token, whether it failed, and tokens.json afterwards
RefreshOAuthToken(serverName, serverConfig, tokenData, toks, t, answer) ==
  IF ~serverConfig.oauth \/ ~answer.ok
    THEN [token |-> "", err |-> TRUE, tokens |-> toks]
    ELSE LET newTokenData ==
               TokenData(answer.AccessToken,
                         IF answer.RefreshToken = "" THEN tokenData.RefreshToken
                                                     ELSE answer.RefreshToken,
                         IF answer.ExpiresIn > 0 THEN t + answer.ExpiresIn ELSE 0)
         IN [token |-> answer.AccessToken, err |-> FALSE,
             tokens |-> [toks EXCEPT ![serverName] = newTokenData]]

\* (an expiry test without the 60s buffer)
ExpiredNoSkew(tokenData, t) == tokenData.ExpiresAt > 0 /\ t > tokenData.ExpiresAt

\* GetTokenForServer's expiry test
Expired(tokenData, t) == tokenData.ExpiresAt > 0 /\ t > tokenData.ExpiresAt - TokenSkew

\* GetTokenForServer: the token and the error it returns (the error is nil on every
\* path), and tokens.json afterwards
GetTokenForServer(serverName, serverConfig, toks, t, answer) ==
  LET tokenData == toks[serverName] IN
  IF ~tokenData.present
    THEN [token |-> "", err |-> FALSE, tokens |-> toks]
    ELSE IF Expired(tokenData, t)
      THEN IF tokenData.RefreshToken # ""
             THEN LET r == RefreshOAuthToken(serverName, serverConfig, tokenData, toks, t, answer)
                  IN [token |-> IF r.err \/ r.token = "" THEN "" ELSE r.token, err |-> FALSE,
                      tokens |-> r.tokens]
             ELSE [token |-> "", err |-> FALSE, tokens |-> toks]
      ELSE [token |-> tokenData.AccessToken, err |-> FALSE, tokens |-> toks]

\* NewMCPClient; initOKG is a ghost: an Initialize has returned nil on this client since
\* it was constructed or last closed.
NewMCPClient(serverName, cfg) ==
  [serverName |-> serverName, url |-> cfg.url, sessionBased |-> cfg.sessionBased,
   persistent |-> cfg.sessionBased, oauthToken |-> "", sessionID |-> "",
   initialized |-> FALSE, closed |-> FALSE, initOKG |-> FALSE]

\* MCPClient.Close
Close(c) == [c EXCEPT !.initialized = FALSE, !.sessionID = "", !.closed = TRUE, !.initOKG = FALSE]

\* (an Initialize that never looks at sessions.json)
UsesSessionStoreNever(c) == FALSE

\* (an Initialize that treats every server like a non-session-based one)
UsesSessionStoreAlways(c) == TRUE

\* Initialize consults and updates sessions.json only for a server that is not session-based
UsesSessionStore(c) == ~c.sessionBased

\* (a handleCommand without its default branch: an unknown action answers like ping)
DispatchNoDefault(cmd) ==
  IF ~cmd.wellFormed THEN "parse"
  ELSE IF cmd.Action \in {"reload", "servers", "status", "shutdown"} THEN cmd.Action
  ELSE IF cmd.Action = "tools" THEN (IF cmd.Server = "" THEN "args" ELSE "tools")
  ELSE IF cmd.Action = "call" THEN (IF cmd.Server = "" \/ cmd.Tool = "" THEN "args" ELSE "call")
  ELSE "ping"

\* (a getTools that serves an entry only once it has expired)
FreshInverted(cached, t) == cached.present /\ ~(t < cached.Expires)

\* (a getTools that still serves an entry at the instant it expires)
FreshAtExpiry(cached, t) == cached.present /\ t <= cached.Expires

\* CachedTools is served only while time.Now().Before(cached.Expires)
Fresh(cached, t) == cached.present /\ t < cached.Expires

\* (a reloadConfig that compares the URL alone)
ConfigChangedURLOnly(oldServerConfig, newServerConfig) ==
  oldServerConfig.url # newServerConfig.url

\* reloadConfig's test for a significant change of a server's config
ConfigChanged(oldServerConfig, newServerConfig) ==
  \/ oldServerConfig.url # newServerConfig.url
  \/ oldServerConfig.sessionBased # newServerConfig.sessionBased

\* (a reloadConfig that drops every client, and one that skips removed servers)
EvictedAll(cl, oldServers, newServers) == {n \in Names : cl[n] # 0}
EvictedChangedOnly(cl, oldServers, newServers) ==
  {n \in Names : cl[n] # 0 /\ newServers[n].present
                   /\ ConfigChanged(oldServers[n], newServers[n])}

\* (a reloadConfig that installs the new config and leaves d.clients alone)
EvictedNone(cl, oldServers, newServers) == {}

\* the names whose client reloadConfig closes and deletes
Evicted(cl, oldServers, newServers) ==
  {n \in Names : cl[n] # 0 /\ (~newServers[n].present \/ ConfigChanged(oldServers[n], newServers[n]))}

\* no `mcpx auth` is running; nothing is being probed
\* the query of a request to /callback
Query(code, state, error) == [code |-> code, state |-> state, error |-> error]
NoQuery == Query("", "", "")
\* the value generateState returned, as the authorization server echoes it
GeneratedState == "st1"
\* the redirect of the authorization the user granted, a forged request with its own code
\* and another state, the redirect of a denied authorization, and a request with no
\* parameters
Queries ==
  {Query("c1", GeneratedState, ""), Query("evil", "bad", ""),
   Query("", GeneratedState, "denied"), NoQuery}

\* OAuthCallbackServer and DoOAuthFlow's position; cb[k] is the k-th request's handler and
\* its completion goroutine; sent is the code of the token request ("" when none was sent)
NoFlow ==
  [pc |-> "none", state |-> "", authCode |-> "", cbState |-> "", err |-> "",
   doneClosed |-> FALSE, sent |-> "",
   cb |-> [k \in 1..MaxCallbacks |-> [pc |-> "idle", query |-> NoQuery]]]
\* a response body is a sequence of pieces: a space, a newline, the prefix "data:", the
\* text of a JSON-RPC response (j1, j2), or other text that is not JSON (an "event:" field)
Whitespace == {"sp", "nl"}
Pieces == Whitespace \cup {"data:", "j1", "j2", "text"}
Bodies == UNION {[1..n -> Pieces] : n \in 0..MaxBodyLen}

\* a header that is not set
Unset == "unset"
HeaderNames == {"Content-Type", "Accept", "Authorization", "Mcp-Session-Id"}
\* the headers of a server's config
StaticHeaders ==
  {h \in [HeaderNames -> {Unset, "static"}] : h["Accept"] = Unset}

\* a call of parseSSEResponse (fn = "sse") or the header composition of Request
\* (fn = "headers"): its arguments, whether it has returned, and what it returned
NoProbe ==
  [fn |-> "none", applied |-> FALSE, text |-> <<>>, resp |-> "", err |-> FALSE,
   static |-> [k \in HeaderNames |-> Unset], oauthToken |-> "", sessionID |-> "",
   headers |-> [k \in HeaderNames |-> Unset]]

\* the state of one StopAll call: the procs still to stop and the one Stop is waiting for
NoStop == [set |-> {}, cur |-> 0]

\* the connection record: the CLI side's state, the handler goroutine's program counter
\* and locals, and two ghosts: lateG (it arrived when running was already false) and
\* noteG (what the handler found: a cache hit, or what reloadConfig did to the clients)
NoNote == [kind |-> "", same |-> FALSE, kept |-> {}, changed |-> {}, removed |-> {}]

\* and writtenG (how many Responses the handler has encoded onto the connection); sid and
\* snapshot are Initialize's locals sessionID and sessions while it saves the session id,
\* and the ghost savedG names the server whose id the handler has saved
IdleConn ==
  [st |-> "idle", cmd |-> Garbage, pc |-> "", client |-> 0, loaded |-> NoServers,
   tools |-> "", resp |-> NoResponse, stop |-> NoStop, lateG |-> FALSE, noteG |-> NoNote,
   writtenG |-> 0, sid |-> "", snapshot |-> [n \in {"s1", "s2"} |-> ""], savedG |-> ""]

\* the handler writes its one Response and closes the connection
Finish(h, response) ==
  [conn EXCEPT ![h].st = "closed", ![h].pc = "", ![h].resp = response, ![h].client = 0,
               ![h].loaded = NoServers, ![h].tools = "", ![h].stop = NoStop,
               ![h].writtenG = @ + 1]

\* No `mcpx --daemon` has been run: no daemon process, no socket file, no PID file.
\* socket and pidFile name the daemon process that created the file, 0 = no file.
NoBoot ==
  [starter |-> [k \in 1..MaxStarts |-> "idle"],
   daemon |-> [k \in 1..MaxStarts |-> "none"],
   socket |-> 0, pidFile |-> 0]

Conns == DOMAIN conn

At(h, pc) == conn[h].st = "running" /\ conn[h].pc = pc

\* (a handleCommand whose call branch does not look at the tool name)
DispatchToolUnchecked(cmd) ==
  IF ~cmd.wellFormed THEN "parse"
  ELSE IF cmd.Action \in {"ping", "reload", "servers", "status", "shutdown"} THEN cmd.Action
  ELSE IF cmd.Action = "tools" THEN (IF cmd.Server = "" THEN "args" ELSE "tools")
  ELSE IF cmd.Action = "call" THEN (IF cmd.Server = "" THEN "args" ELSE "call")
  ELSE "unknown"

\* (a handleConnection that ignores the decode error and dispatches the zero Command)
DispatchDecodeIgnored(cmd) ==
  IF ~cmd.wellFormed THEN "unknown"
  ELSE IF cmd.Action \in {"ping", "reload", "servers", "status", "shutdown"} THEN cmd.Action
  ELSE IF cmd.Action = "tools" THEN (IF cmd.Server = "" THEN "args" ELSE "tools")
  ELSE IF cmd.Action = "call" THEN (IF cmd.Server = "" \/ cmd.Tool = "" THEN "args" ELSE "call")
  ELSE "unknown"

\* handleCommand's switch: the branch a command takes ("parse" is handleConnection's
\* decode failure, "args" the missing-server/tool returns of the tools and call branches)
Dispatch(cmd) ==
  IF ~cmd.wellFormed THEN "parse"
  ELSE IF cmd.Action \in {"ping", "reload", "servers", "status", "shutdown"} THEN cmd.Action
  ELSE IF cmd.Action = "tools" THEN (IF cmd.Server = "" THEN "args" ELSE "tools")
  ELSE IF cmd.Action = "call" THEN (IF cmd.Server = "" \/ cmd.Tool = "" THEN "args" ELSE "call")
  ELSE "unknown"

\* the daemon process exists: goroutines take steps only until Run returns
Alive == mainPc # "stopped"

\* ------------------------------------------------------------------- Init
InitStores ==
  /\ tokens = [n \in Names |-> IF n = "s1" THEN TokenData("tok1", "", 0) ELSE NoToken]
  /\ sessions = [n \in Names |-> ""]
  /\ now = 0

InitProcess ==
  /\ writes = 0
  /\ clients = [n \in Names |-> 0]
  /\ clientObjs = <<>>
  /\ toolsCache = [n \in Names |-> NoCache]
  /\ running = TRUE
  /\ listener = "none"
  /\ socketFile = FALSE
  /\ pidFile = FALSE
  /\ mainPc = "run"
  /\ mainTodo = {}
  /\ mainStop = NoStop
  /\ sigPending = "none"
  /\ processes = [n \in Names |-> 0]
  /\ procs = <<>>
  /\ monitor = [n \in Names |-> [pc |-> "none", proc |-> 0]]
  /\ fetchedG = [n \in Names |-> {}]
  /\ oauth = NoFlow

\* one daemon process, started in the foreground
InitDaemon == InitProcess /\ boot = NoBoot

InitCommon == InitStores /\ InitDaemon /\ probe = NoProbe

\* NewMCPDaemon with a servers.json that declares no local server
Init ==
  /\ configFile = ConfigFileOf(BaseServers)
  /\ config = BaseServers
  /\ conn = [i \in 1..MaxReloadConns |-> IdleConn]
  /\ InitCommon

\* NewMCPDaemon with a servers.json in which s2 has a local config
InitLife ==
  /\ configFile = ConfigFileOf(LocalServers)
  /\ config = LocalServers
  /\ conn = [i \in 1..MaxLifeConns |-> IdleConn]
  /\ InitCommon

InitCommand ==
  /\ configFile = ConfigFileOf(LocalServers)
  /\ config = LocalServers
  /\ conn = [i \in 1..MaxCommandConns |-> IdleConn]
  /\ InitCommon

\* NewMCPDaemon after an earlier run left any entries in sessions.json
InitSession ==
  /\ configFile = ConfigFileOf(BaseServers)
  /\ config = BaseServers
  /\ conn = [i \in 1..MaxSessionConns |-> IdleConn]
  /\ tokens = [n \in Names |-> NoToken]
  /\ sessions \in [Names -> StoredSessionIds]
  /\ now = 0
  /\ InitDaemon
  /\ probe = NoProbe

\* NewMCPDaemon with s1 and s2 configured, before servers.json is edited
InitAbsent ==
  /\ configFile = ConfigFileOf(BaseServers)
  /\ config = BaseServers
  /\ conn = [i \in 1..MaxAbsentConns |-> IdleConn]
  /\ InitCommon

\* NewMCPDaemon with a servers.json that declares s1 alone
InitProtocol ==
  /\ configFile = ConfigFileOf(OneServer)
  /\ config = OneServer
  /\ conn = [i \in 1..MaxProtocolConns |-> IdleConn]
  /\ InitCommon

\* NewMCPDaemon with any token record, or none, stored for s1
InitToken ==
  /\ configFile = ConfigFileOf(BaseServers)
  /\ config = BaseServers
  /\ conn = [i \in 1..MaxTokenConns |-> IdleConn]
  /\ \E rec \in {NoToken} \cup {TokenData("tok1", r, e) : r \in {"", "ref1"}, e \in TokenExpiries} :
       tokens = [n \in Names |-> IF n = "s1" THEN rec ELSE NoToken]
  /\ \E sid \in SessionIds : sessions = [n \in Names |-> IF n = "s1" THEN sid ELSE ""]
  /\ now = 0
  /\ InitDaemon
  /\ probe = NoProbe

InitCache ==
  /\ configFile = ConfigFileOf(BaseServers)
  /\ config = BaseServers
  /\ conn = [i \in 1..MaxCacheConns |-> IdleConn]
  /\ InitCommon

\* ------------------------------------------------------- the CLI side, time
\* DaemonSend: dial the socket and write one command
Connect(i, cmd) ==
  /\ conn[i].st = "idle"
  /\ \A j \in Conns : j < i => conn[j].st # "idle"
  /\ socketFile /\ listener = "open"
  /\ conn' = [conn EXCEPT ![i] = [IdleConn EXCEPT !.st = "pending", !.cmd = cmd,
                                                  !.lateG = ~running]]
  /\ UNCHANGED <<sideVars, storeVars, now, daemonVars, runVars, superVars, fetchedG>>

ConnectReload == \E i \in Conns, cmd \in ReloadCommands : Connect(i, cmd)
ConnectCache == \E i \in Conns, cmd \in CacheCommands : Connect(i, cmd)
ConnectCommand == \E i \in Conns, cmd \in CommandCommands : Connect(i, cmd)
ConnectSession == \E i \in Conns, cmd \in SessionCommands : Connect(i, cmd)
ConnectToken == \E i \in Conns, cmd \in TokenCommands : Connect(i, cmd)
ConnectProtocol == \E i \in Conns, cmd \in ProtocolCommands : Connect(i, cmd)
ConnectAbsent == \E i \in Conns, cmd \in AbsentCommands : Connect(i, cmd)
ConnectPinned == \E i \in Conns, cmd \in SessionCommands : Connect(i, cmd)
ConnectLocalReload == \E i \in Conns, cmd \in LocalReloadCommands : Connect(i, cmd)
ConnectLife == \E i \in Conns, cmd \in LifeCommands : Connect(i, cmd)

\* servers.json is rewritten (addServer, removeServer, an editor): back to the initial
\* content, s1 moved to another url, s1 removed, s2 no longer session-based, or broken JSON
FileValues ==
  {ConfigFileOf(BaseServers),
   ConfigFileOf([BaseServers EXCEPT !["s1"].url = "urlB"]),
   ConfigFileOf([BaseServers EXCEPT !["s1"] = Absent]),
   ConfigFileOf([BaseServers EXCEPT !["s2"].sessionBased = FALSE]),
   CorruptFile}

WriteConfigFile ==
  /\ writes < MaxWrites
  /\ writes' = writes + 1
  /\ \E v \in FileValues \ {configFile} : configFile' = v
  /\ UNCHANGED <<sideVars, tokens, sessions, now, daemonVars, runVars, conn, superVars, fetchedG>>

Tick ==
  /\ now + ClockStep <= MaxTime
  /\ now' = now + ClockStep
  /\ UNCHANGED <<sideVars, storeVars, daemonVars, runVars, conn, superVars, fetchedG>>

\* ------------------------------------------------------------ Run, startup
\* Run up to net.Listen and signal.Notify
RunStart ==
  /\ mainPc = "run"
  /\ listener' = "open" /\ socketFile' = TRUE /\ pidFile' = TRUE
  /\ mainTodo' = {n \in Names : config[n].present /\ config[n].local}
  /\ mainPc' = "startLocal"
  /\ UNCHANGED <<sideVars, storeVars, now, daemonVars, mainStop, sigPending, conn, superVars, fetchedG>>

\* startLocalServers has gone through every server
StartLocalDone ==
  /\ mainPc = "startLocal" /\ mainTodo = {}
  /\ mainPc' = "loop"
  /\ UNCHANGED <<sideVars, storeVars, now, daemonVars, listener, socketFile, pidFile, mainTodo, mainStop,
                 sigPending, conn, superVars, fetchedG>>

\* the accept loop's test of d.running
MainLoop ==
  /\ mainPc = "loop"
  /\ mainPc' = IF running THEN "accept" ELSE "cleanup"
  /\ UNCHANGED <<sideVars, storeVars, now, daemonVars, listener, socketFile, pidFile, mainTodo, mainStop,
                 sigPending, conn, superVars, fetchedG>>

\* listener.Accept returns the oldest pending connection; its handler goroutine starts
Accept(i) ==
  /\ mainPc = "accept" /\ listener = "open"
  /\ conn[i].st = "pending"
  /\ \A j \in Conns : conn[j].st = "pending" => i <= j
  /\ conn' = [conn EXCEPT ![i].st = "running", ![i].pc = "read"]
  /\ mainPc' = "loop"
  /\ UNCHANGED <<sideVars, storeVars, now, daemonVars, listener, socketFile, pidFile, mainTodo, mainStop,
                 sigPending, superVars, fetchedG>>

AcceptConn == \E i \in Conns : Accept(i)

\* ------------------------------------------------- handlers: tools and call
hFrame == <<configFile, writes, now, running, runVars, superVars>>

\* getTools, the read-locked look at the cache: a fresh entry is returned at once
GetToolsCheck(h) ==
  /\ Alive /\ At(h, "read") /\ Dispatch(conn[h].cmd) = "tools"
  /\ LET s == conn[h].cmd.Server IN
     IF Fresh(toolsCache[s], now)
       THEN conn' = [Finish(h, okResponse(toolsCache[s].Tools)) EXCEPT
                       ![h].noteG = [NoNote EXCEPT !.kind = "hit"]]
       ELSE conn' = [conn EXCEPT ![h].pc = "getClient"]
  /\ UNCHANGED <<sideVars, storeVars, now, daemonVars, runVars, superVars, fetchedG>>

\* (a getClient that constructs a client without looking in d.clients first)
GetClientNoLookup(h) ==
  /\ Alive
  /\ \/ At(h, "getClient")
     \/ At(h, "read") /\ Dispatch(conn[h].cmd) = "call"
  /\ LET serverName == conn[h].cmd.Server IN
     IF ~config[serverName].present
       THEN /\ conn' = Finish(h, errResponse("MCP_ERROR"))
            /\ UNCHANGED <<clients, clientObjs, tokens>>
       ELSE \E answer \in TokenAnswers :
              LET got == GetTokenForServer(serverName, config[serverName], tokens, now, answer)
                  client == [NewMCPClient(serverName, config[serverName])
                               EXCEPT !.oauthToken = got.token]
              IN /\ clientObjs' = Append(clientObjs, client)
                 /\ clients' = [clients EXCEPT ![serverName] = Len(clientObjs) + 1]
                 /\ tokens' = got.tokens
                 /\ conn' = [conn EXCEPT ![h].client = Len(clientObjs) + 1,
                                         ![h].pc = "initialize"]
  /\ UNCHANGED <<sideVars, hFrame, sessions, config, toolsCache, fetchedG>>

\* getClient under d.mu.Lock, called by getTools after a miss and by callTool
GetClient(h) ==
  /\ Alive
  /\ \/ At(h, "getClient")
     \/ At(h, "read") /\ Dispatch(conn[h].cmd) = "call"
  /\ LET serverName == conn[h].cmd.Server IN
     IF clients[serverName] # 0
       THEN /\ conn' = [conn EXCEPT ![h].client = clients[serverName], ![h].pc = "initialize"]
            /\ UNCHANGED <<clients, clientObjs, tokens>>
       ELSE IF ~config[serverName].present
         THEN /\ conn' = Finish(h, errResponse("MCP_ERROR"))
              /\ UNCHANGED <<clients, clientObjs, tokens>>
         ELSE \E answer \in TokenAnswers :
                LET got == GetTokenForServer(serverName, config[serverName], tokens, now, answer)
                    client == [NewMCPClient(serverName, config[serverName])
                                 EXCEPT !.oauthToken = got.token]
                IN /\ clientObjs' = Append(clientObjs, client)
                   /\ clients' = [clients EXCEPT ![serverName] = Len(clientObjs) + 1]
                   /\ tokens' = got.tokens
                   /\ conn' = [conn EXCEPT ![h].client = Len(clientObjs) + 1,
                                           ![h].pc = "initialize"]
  /\ UNCHANGED <<sideVars, hFrame, sessions, config, toolsCache, fetchedG>>

\* MCPClient.Initialize, first half: a non-session-based client adopts the session id
\* that sessions.json holds for its server and sends nothing
InitializeCached(h) ==
  /\ Alive /\ At(h, "initialize")
  /\ LET c == conn[h].client IN
     /\ UsesSessionStore(clientObjs[c])
     /\ sessions[clientObjs[c].serverName] # ""
     /\ clientObjs' = [clientObjs EXCEPT ![c].sessionID = sessions[clientObjs[c].serverName],
                                         ![c].initOKG = TRUE]
  /\ conn' = [conn EXCEPT ![h].pc = "request"]
  /\ UNCHANGED <<sideVars, hFrame, tokens, sessions, config, clients, toolsCache, fetchedG>>

\* MCPClient.Initialize, second half: the initialize JSON-RPC and its answer.
\* ok = FALSE is a transport, decode or JSON-RPC error; sid is the Mcp-Session-Id header
\* of the answer, which the server picks from sids.
InitializeAnswered(h, sids) ==
  /\ Alive /\ At(h, "initialize")
  /\ LET c == conn[h].client
         name == clientObjs[c].serverName
     IN /\ ~UsesSessionStore(clientObjs[c]) \/ sessions[name] = ""
        /\ \E ok \in BOOLEAN, sid \in sids :
             IF ~ok
               THEN /\ UNCHANGED clientObjs
                    /\ conn' = Finish(h, errResponse("MCP_ERROR"))
                    /\ UNCHANGED sessions
               ELSE /\ clientObjs' = [clientObjs EXCEPT ![c].initOKG = TRUE,
                                                        ![c].sessionID = IF sid # "" THEN sid ELSE @]
                    /\ sessions' = IF sid # "" /\ UsesSessionStore(clientObjs[c])
                                     THEN [sessions EXCEPT ![name] = sid]
                                     ELSE sessions
                    /\ conn' = [conn EXCEPT ![h].pc = "request"]
  /\ UNCHANGED <<sideVars, hFrame, tokens, config, clients, toolsCache, fetchedG>>

\* the upstream server answers every initialize with the same session id, or with none
InitializeRPC(h) == InitializeAnswered(h, SessionIds)

\* the upstream server may open a new session at each initialize
InitializeRotating(h) == InitializeAnswered(h, RotatingSessionIds)

\* ListTools after Initialize: the tools/list request and its answer
RequestToolsList(h) ==
  /\ Alive /\ At(h, "request") /\ conn[h].cmd.Action = "tools"
  /\ \/ conn' = Finish(h, errResponse("MCP_ERROR"))
     \/ \E tl \in ToolLists :
          conn' = [conn EXCEPT ![h].tools = tl, ![h].pc = "store"]
  /\ UNCHANGED <<sideVars, storeVars, now, daemonVars, runVars, superVars, fetchedG>>

\* getTools, the write-locked store of the fetched list, and the Response
StoreTools(h) ==
  /\ Alive /\ At(h, "store")
  /\ LET s == conn[h].cmd.Server
         entry == CachedTools(conn[h].tools, now + ToolsCacheTTL)
     IN /\ toolsCache' = [toolsCache EXCEPT ![s] = entry]
        /\ fetchedG' = [fetchedG EXCEPT ![s] = {r \in @ : now < r.Expires} \cup {entry}]
  /\ conn' = Finish(h, okResponse(conn[h].tools))
  /\ UNCHANGED <<sideVars, hFrame, tokens, sessions, config, clients, clientObjs>>

\* CallTool after Initialize: the tools/call request and its answer, and the Response
RequestToolsCall(h) ==
  /\ Alive /\ At(h, "request") /\ conn[h].cmd.Action = "call"
  /\ \E ok \in BOOLEAN :
       conn' = Finish(h, IF ok THEN okResponse("result") ELSE errResponse("MCP_ERROR"))
  /\ UNCHANGED <<sideVars, storeVars, now, daemonVars, runVars, superVars, fetchedG>>

\* ------------------------------------------------------- handlers: reload
\* (a reload that begins by dropping the supervisor's processes, as shutdown does)
ReloadLoadStopsLocal(h) ==
  /\ Alive /\ At(h, "read") /\ Dispatch(conn[h].cmd) = "reload"
  /\ conn' = IF configFile.valid
               THEN [conn EXCEPT ![h].loaded = configFile.servers, ![h].pc = "reloadApply"]
               ELSE Finish(h, errResponse("MCP_ERROR"))
  /\ processes' = [n \in Names |-> 0]
  /\ UNCHANGED <<sideVars, storeVars, now, daemonVars, runVars, procs, monitor, fetchedG>>

\* (a reloadConfig that ignores LoadConfig's error and installs the empty config)
ReloadLoadIgnoresError(h) ==
  /\ Alive /\ At(h, "read") /\ Dispatch(conn[h].cmd) = "reload"
  /\ conn' = [conn EXCEPT ![h].loaded = configFile.servers, ![h].pc = "reloadApply"]
  /\ UNCHANGED <<sideVars, storeVars, now, daemonVars, runVars, superVars, fetchedG>>

\* reloadConfig, LoadConfig (outside the lock)
ReloadLoad(h) ==
  /\ Alive /\ At(h, "read") /\ Dispatch(conn[h].cmd) = "reload"
  /\ conn' = IF configFile.valid
               THEN [conn EXCEPT ![h].loaded = configFile.servers, ![h].pc = "reloadApply"]
               ELSE Finish(h, errResponse("MCP_ERROR"))
  /\ UNCHANGED <<sideVars, storeVars, now, daemonVars, runVars, superVars, fetchedG>>

\* reloadConfig under d.mu.Lock, and the Response
ReloadApply(h) ==
  /\ Alive /\ At(h, "reloadApply")
  /\ LET gone == Evicted(clients, config, conn[h].loaded) IN
     /\ config' = conn[h].loaded
     /\ clientObjs' = [i \in 1..Len(clientObjs) |->
                         IF \E n \in gone : clients[n] = i THEN Close(clientObjs[i])
                                                           ELSE clientObjs[i]]
     /\ clients' = [n \in Names |-> IF n \in gone THEN 0 ELSE clients[n]]
     /\ toolsCache' = [n \in Names |-> IF n \in gone THEN NoCache ELSE toolsCache[n]]
     /\ fetchedG' = [n \in Names |-> IF n \in gone THEN {} ELSE fetchedG[n]]
  /\ conn' = [Finish(h, okResponse("config reloaded")) EXCEPT ![h].noteG =
                [kind |-> "reload", same |-> conn[h].loaded = config,
                 kept |-> {n \in Names : clients[n] # 0 /\ clients'[n] = clients[n]},
                 changed |-> {n \in Names : clients[n] # 0 /\ clients'[n] = 0
                                            /\ conn[h].loaded[n].present},
                 removed |-> {n \in Names : clients[n] # 0 /\ clients'[n] = 0
                                            /\ ~conn[h].loaded[n].present}]]
  /\ UNCHANGED <<sideVars, hFrame, tokens, sessions>>

\* ------------------------------------------- handlers: single-step commands
HandlePing(h) ==
  /\ Alive /\ At(h, "read") /\ Dispatch(conn[h].cmd) = "ping"
  /\ conn' = Finish(h, okResponse("pong"))
  /\ UNCHANGED <<sideVars, storeVars, now, daemonVars, runVars, superVars, fetchedG>>

HandleUnknown(h) ==
  /\ Alive /\ At(h, "read") /\ Dispatch(conn[h].cmd) = "unknown"
  /\ conn' = Finish(h, errResponse("UNKNOWN_ACTION"))
  /\ UNCHANGED <<sideVars, storeVars, now, daemonVars, runVars, superVars, fetchedG>>

\* handleConnection: decoder.Decode fails; the PARSE_ERROR Response is encoded and the
\* handler returns without calling handleCommand
HandleParseError(h) ==
  /\ Alive /\ At(h, "read") /\ Dispatch(conn[h].cmd) = "parse"
  /\ conn' = Finish(h, errResponse("PARSE_ERROR"))
  /\ UNCHANGED <<sideVars, storeVars, now, daemonVars, runVars, superVars, fetchedG>>

\* handleCommand, cases "tools" and "call": an empty server, or an empty tool of a call
HandleInvalidArgs(h) ==
  /\ Alive /\ At(h, "read") /\ Dispatch(conn[h].cmd) = "args"
  /\ conn' = Finish(h, errResponse("INVALID_ARGS"))
  /\ UNCHANGED <<sideVars, storeVars, now, daemonVars, runVars, superVars, fetchedG>>

\* handleCommand, case "servers": the names and URLs of d.config, read under d.mu.RLock
HandleServers(h) ==
  /\ Alive /\ At(h, "read") /\ Dispatch(conn[h].cmd) = "servers"
  /\ conn' = Finish(h, okResponse("servers"))
  /\ UNCHANGED <<sideVars, storeVars, now, daemonVars, runVars, superVars, fetchedG>>

\* handleCommand, case "status": GetStatus of the supervisor and counts of d.config
HandleStatus(h) ==
  /\ Alive /\ At(h, "read") /\ Dispatch(conn[h].cmd) = "status"
  /\ conn' = Finish(h, okResponse("status"))
  /\ UNCHANGED <<sideVars, storeVars, now, daemonVars, runVars, superVars, fetchedG>>

\* ------------------------------------------------------------- supervisor
\* how LocalProcess.Start ends: the child runs and accepts connections; no child was
\* started (log file, LookPath, pipes or exec failed); or the child was started, did not
\* become ready, and Start stopped it
StartOutcomes == {"ready", "nochild", "notready"}

\* a LocalProcess as StartServer and monitorProcess construct it. started is
\* Cmd.Process # nil, alive the OS child, done the closed channel; signaled is a ghost
\* closesG is a ghost: how many times close(p.done) has run
LocalProcess(name, restarts) ==
  [Name |-> name, Restarts |-> restarts, stopping |-> FALSE, started |-> FALSE,
   alive |-> FALSE, done |-> FALSE, signaled |-> FALSE, closesG |-> 0]

\* (a Start that returns the readiness error without stopping the child)
StartLeavesChild(p, outcome) ==
  IF outcome \in {"ready", "notready"} THEN [p EXCEPT !.started = TRUE, !.alive = TRUE] ELSE p

\* LocalProcess.Start, as the process is when Start returns
Start(p, outcome) ==
  IF outcome = "ready" THEN [p EXCEPT !.started = TRUE, !.alive = TRUE]
  ELSE IF outcome = "notready"
    THEN [p EXCEPT !.started = TRUE, !.stopping = TRUE, !.signaled = TRUE, !.done = TRUE,
                   !.closesG = 1]
    ELSE p

\* (a Stop that signals the child without marking the process)
StopSignalUnmarked(p) == [procs EXCEPT ![p].signaled = TRUE]

\* LocalProcess.Stop up to the signal: mark stopping, send SIGINT
StopSignal(p) == [procs EXCEPT ![p].stopping = TRUE, ![p].signaled = TRUE]

\* LocalProcess.Stop after the grace wait: SIGKILL
StopKill(p) == [procs EXCEPT ![p].alive = FALSE]

\* StopAll's snapshot of m.processes
StopTargets == {processes[n] : n \in {m \in Names : processes[m] # 0}}

\* StartServer, called by startLocalServers for a server with a local config
StartServer(n) ==
  /\ mainPc = "startLocal" /\ n \in mainTodo
  /\ mainTodo' = mainTodo \ {n}
  /\ IF processes[n] # 0
       THEN UNCHANGED superVars
       ELSE \E outcome \in StartOutcomes :
              LET proc == Start(LocalProcess(n, 0), outcome) IN
              /\ procs' = IF outcome = "nochild" THEN procs ELSE Append(procs, proc)
              /\ processes' = IF outcome = "ready"
                                THEN [processes EXCEPT ![n] = Len(procs) + 1] ELSE processes
              /\ monitor' = IF outcome = "ready"
                              THEN [monitor EXCEPT ![n] = [pc |-> "read", proc |-> 0]]
                              ELSE monitor
  /\ UNCHANGED <<sideVars, storeVars, now, daemonVars, listener, socketFile, pidFile, mainPc, mainStop,
                 sigPending, conn, fetchedG>>

\* the OS child exits: a crash, or its reaction to SIGINT
ChildExit(p) ==
  /\ p \in DOMAIN procs
  /\ procs[p].alive
  /\ procs' = [procs EXCEPT ![p].alive = FALSE]
  /\ UNCHANGED <<sideVars, storeVars, now, daemonVars, runVars, conn, processes, monitor, fetchedG>>

\* (a wait goroutine that does not wait for the child)
CmdWaitSkipped(proc) == proc.started

\* p.Cmd.Wait() returns: the child was started and has exited
CmdWaitReturned(proc) == proc.started /\ ~proc.alive

\* Start's wait goroutine: Cmd.Wait returns, the log file is closed, done is closed
WaitReturns(p) ==
  /\ Alive /\ p \in DOMAIN procs
  /\ CmdWaitReturned(procs[p]) /\ ~procs[p].done
  /\ procs' = [procs EXCEPT ![p].done = TRUE, ![p].closesG = @ + 1]
  /\ UNCHANGED <<sideVars, storeVars, now, daemonVars, runVars, conn, processes, monitor, fetchedG>>

\* monitorProcess: the read-locked lookup at the top of the loop
MonitorRead(n) ==
  /\ Alive /\ monitor[n].pc = "read"
  /\ monitor' = [monitor EXCEPT ![n] = IF processes[n] = 0
                                         THEN [pc |-> "none", proc |-> 0]
                                         ELSE [pc |-> "wait", proc |-> processes[n]]]
  /\ UNCHANGED <<sideVars, storeVars, now, daemonVars, runVars, conn, processes, procs, fetchedG>>

\* monitorProcess: <-proc.done returns; an intentional stop ends the monitor
MonitorWake(n) ==
  /\ Alive /\ monitor[n].pc = "wait"
  /\ procs[monitor[n].proc].done
  /\ monitor' = [monitor EXCEPT ![n] = IF procs[monitor[n].proc].stopping
                                         THEN [pc |-> "none", proc |-> 0]
                                         ELSE [@ EXCEPT !.pc = "sleep"]]
  /\ UNCHANGED <<sideVars, storeVars, now, daemonVars, runVars, conn, processes, procs, fetchedG>>

\* (a restart that keeps the counter)
NextRestartsSame(proc) == proc.Restarts

\* monitorProcess's Restarts: proc.Restarts + 1
NextRestarts(proc) == proc.Restarts + 1

\* (a monitor that restarts without looking at the map)
StillTrackedAlways(n) == TRUE

\* monitorProcess's second lookup: _, stillExists := m.processes[name]
StillTracked(n) == processes[n] # 0

\* monitorProcess after the 1s delay: under m.mu.Lock, restart if still tracked
MonitorRestart(n) ==
  /\ Alive /\ monitor[n].pc = "sleep"
  /\ IF ~StillTracked(n)
       THEN /\ monitor' = [monitor EXCEPT ![n] = [pc |-> "none", proc |-> 0]]
            /\ UNCHANGED <<processes, procs>>
       ELSE /\ Len(procs) < MaxProcs
            /\ \E outcome \in StartOutcomes :
                 LET newProc == Start(LocalProcess(n, NextRestarts(procs[monitor[n].proc])),
                                      outcome)
                 IN /\ procs' = IF outcome = "nochild" THEN procs ELSE Append(procs, newProc)
                    /\ processes' = [processes EXCEPT ![n] = IF outcome = "ready"
                                                               THEN Len(procs) + 1 ELSE 0]
                    /\ monitor' = [monitor EXCEPT ![n] = IF outcome = "ready"
                                                           THEN [pc |-> "read", proc |-> 0]
                                                           ELSE [pc |-> "none", proc |-> 0]]
  /\ UNCHANGED <<sideVars, storeVars, now, daemonVars, runVars, conn, fetchedG>>

\* ------------------------------------------------------ handlers: shutdown
\* handleCommand, case "shutdown": d.running = false
ShutdownBegin(h) ==
  /\ Alive /\ At(h, "read") /\ Dispatch(conn[h].cmd) = "shutdown"
  /\ running' = FALSE
  /\ conn' = [conn EXCEPT ![h].pc = "stopAll"]
  /\ UNCHANGED <<sideVars, storeVars, now, config, clients, clientObjs, toolsCache, runVars, superVars,
                 fetchedG>>

\* StopAll: under m.mu.Lock, copy the processes and replace the map by an empty one
HandlerStopAll(h) ==
  /\ Alive /\ At(h, "stopAll")
  /\ conn' = [conn EXCEPT ![h].stop = [set |-> StopTargets, cur |-> 0], ![h].pc = "stopNext"]
  /\ processes' = [n \in Names |-> 0]
  /\ UNCHANGED <<sideVars, storeVars, now, daemonVars, runVars, procs, monitor, fetchedG>>

\* StopAll's loop: Stop the next process (mark it stopping, SIGINT), or return and answer
HandlerStopNext(h) ==
  /\ Alive /\ At(h, "stopNext")
  /\ IF conn[h].stop.set = {}
       THEN /\ conn' = Finish(h, okResponse("shutting down"))
            /\ UNCHANGED procs
       ELSE \E p \in conn[h].stop.set :
              /\ procs' = StopSignal(p)
              /\ conn' = [conn EXCEPT ![h].stop = [set |-> @.set \ {p}, cur |-> p],
                                      ![h].pc = "stopWait"]
  /\ UNCHANGED <<sideVars, storeVars, now, daemonVars, runVars, processes, monitor, fetchedG>>

\* Stop's select: done is closed, or the 5s grace is over and the child is killed
HandlerStopWait(h) ==
  /\ Alive /\ At(h, "stopWait")
  /\ IF procs[conn[h].stop.cur].done
       THEN /\ conn' = [conn EXCEPT ![h].stop.cur = 0, ![h].pc = "stopNext"]
            /\ UNCHANGED procs
       ELSE /\ procs' = StopKill(conn[h].stop.cur)
            /\ conn' = [conn EXCEPT ![h].pc = "stopKilled"]
  /\ UNCHANGED <<sideVars, storeVars, now, daemonVars, runVars, processes, monitor, fetchedG>>

\* Stop after Kill: <-p.done
HandlerStopKilled(h) ==
  /\ Alive /\ At(h, "stopKilled")
  /\ procs[conn[h].stop.cur].done
  /\ conn' = [conn EXCEPT ![h].stop.cur = 0, ![h].pc = "stopNext"]
  /\ UNCHANGED <<sideVars, storeVars, now, daemonVars, runVars, superVars, fetchedG>>

\* ------------------------------------------------- Run: signals and cleanup
\* SIGTERM or SIGINT is delivered to the daemon (signal.Notify is in place)
SignalArrives ==
  /\ Alive /\ listener # "none" /\ sigPending = "none"
  /\ sigPending' = "pending"
  /\ UNCHANGED <<sideVars, storeVars, now, daemonVars, listener, socketFile, pidFile, mainPc, mainTodo,
                 mainStop, conn, superVars, fetchedG>>

\* the signal goroutine: d.running = false; listener.Close()
SignalHandler ==
  /\ Alive /\ sigPending = "pending"
  /\ sigPending' = "handled"
  /\ running' = FALSE
  /\ listener' = "closed"
  /\ UNCHANGED <<sideVars, storeVars, now, config, clients, clientObjs, toolsCache, socketFile, pidFile,
                 mainPc, mainTodo, mainStop, conn, superVars, fetchedG>>

\* listener.Accept fails on the closed listener; the loop continues
AcceptError ==
  /\ mainPc = "accept" /\ listener = "closed"
  /\ mainPc' = "loop"
  /\ UNCHANGED <<sideVars, storeVars, now, daemonVars, listener, socketFile, pidFile, mainTodo, mainStop,
                 sigPending, conn, superVars, fetchedG>>

\* Run's cleanup, stopLocalServers: StopAll's locked section
MainStopAll ==
  /\ mainPc = "cleanup"
  /\ mainStop' = [set |-> StopTargets, cur |-> 0]
  /\ processes' = [n \in Names |-> 0]
  /\ mainPc' = "stopNext"
  /\ UNCHANGED <<sideVars, storeVars, now, daemonVars, listener, socketFile, pidFile, mainTodo,
                 sigPending, conn, procs, monitor, fetchedG>>

MainStopNext ==
  /\ mainPc = "stopNext"
  /\ IF mainStop.set = {}
       THEN /\ mainPc' = "closeClients"
            /\ UNCHANGED <<mainStop, procs>>
       ELSE \E p \in mainStop.set :
              /\ procs' = StopSignal(p)
              /\ mainStop' = [set |-> mainStop.set \ {p}, cur |-> p]
              /\ mainPc' = "stopWait"
  /\ UNCHANGED <<sideVars, storeVars, now, daemonVars, listener, socketFile, pidFile, mainTodo,
                 sigPending, conn, processes, monitor, fetchedG>>

MainStopWait ==
  /\ mainPc = "stopWait"
  /\ IF procs[mainStop.cur].done
       THEN /\ mainStop' = [mainStop EXCEPT !.cur = 0]
            /\ mainPc' = "stopNext"
            /\ UNCHANGED procs
       ELSE /\ procs' = StopKill(mainStop.cur)
            /\ mainPc' = "stopKilled"
            /\ UNCHANGED mainStop
  /\ UNCHANGED <<sideVars, storeVars, now, daemonVars, listener, socketFile, pidFile, mainTodo,
                 sigPending, conn, processes, monitor, fetchedG>>

MainStopKilled ==
  /\ mainPc = "stopKilled"
  /\ procs[mainStop.cur].done
  /\ mainStop' = [mainStop EXCEPT !.cur = 0]
  /\ mainPc' = "stopNext"
  /\ UNCHANGED <<sideVars, storeVars, now, daemonVars, listener, socketFile, pidFile, mainTodo,
                 sigPending, conn, superVars, fetchedG>>

\* closeAllClients
CloseAllClients ==
  /\ mainPc = "closeClients"
  /\ clientObjs' = [i \in 1..Len(clientObjs) |->
                      IF \E n \in Names : clients[n] = i THEN Close(clientObjs[i])
                                                          ELSE clientObjs[i]]
  /\ clients' = [n \in Names |-> 0]
  /\ toolsCache' = [n \in Names |-> NoCache]
  /\ fetchedG' = [n \in Names |-> {}]
  /\ mainPc' = "closeFiles"
  /\ UNCHANGED <<sideVars, storeVars, now, config, running, listener, socketFile, pidFile, mainTodo,
                 mainStop, sigPending, conn, superVars>>

\* listener.Close, os.Remove(SocketPath), os.Remove(PIDFile); Run returns
RunExit ==
  /\ mainPc = "closeFiles"
  /\ listener' = "closed" /\ socketFile' = FALSE /\ pidFile' = FALSE
  /\ mainPc' = "stopped"
  /\ UNCHANGED <<sideVars, storeVars, now, daemonVars, mainTodo, mainStop, sigPending, conn, superVars,
                 fetchedG>>

\* ---------------------------------------------------- the reload specification
Next ==
  \/ RunStart \/ StartLocalDone \/ MainLoop \/ AcceptConn
  \/ ConnectReload \/ WriteConfigFile
  \/ \E h \in 1..MaxReloadConns :
       \/ GetToolsCheck(h) \/ GetClient(h) \/ InitializeCached(h) \/ InitializeRPC(h)
       \/ RequestToolsList(h) \/ StoreTools(h) \/ RequestToolsCall(h)
       \/ ReloadLoad(h) \/ ReloadApply(h)

Spec == Init /\ [][Next]_vars

\* ----------------------------------------------------- the cache specification
NextCache ==
  \/ RunStart \/ StartLocalDone \/ MainLoop \/ AcceptConn
  \/ ConnectCache \/ Tick
  \/ \E h \in 1..MaxCacheConns :
       \/ GetToolsCheck(h) \/ GetClient(h) \/ InitializeCached(h) \/ InitializeRPC(h)
       \/ RequestToolsList(h) \/ StoreTools(h) \/ RequestToolsCall(h)

SpecCache == InitCache /\ [][NextCache]_vars

\* -------------------------------------------- the removed-server specification
\* `mcpx --remove s1` rewrites servers.json without s1
RemoveServer ==
  /\ writes < MaxWrites
  /\ configFile.valid /\ configFile.servers["s1"].present
  /\ writes' = writes + 1
  /\ configFile' = ConfigFileOf([configFile.servers EXCEPT !["s1"] = Absent])
  /\ UNCHANGED <<sideVars, tokens, sessions, now, daemonVars, runVars, conn, superVars, fetchedG>>

NextAbsent ==
  \/ RunStart \/ StartLocalDone \/ MainLoop \/ AcceptConn
  \/ ConnectAbsent \/ RemoveServer
  \/ \E h \in 1..MaxAbsentConns :
       \/ GetToolsCheck(h) \/ GetClient(h) \/ InitializeCached(h) \/ InitializeRPC(h)
       \/ RequestToolsList(h) \/ StoreTools(h) \/ RequestToolsCall(h)
       \/ ReloadLoad(h) \/ ReloadApply(h)

SpecAbsent == InitAbsent /\ [][NextAbsent]_vars

\* -------------------------------------------------- the protocol specification
\* what the handler goroutine of connection h does with any command; the daemon has no
\* local server here, so StopAll finds no process to stop
ProtocolHandlerStep(h) ==
  \/ HandleParseError(h) \/ HandleInvalidArgs(h) \/ HandleUnknown(h)
  \/ HandlePing(h) \/ HandleServers(h) \/ HandleStatus(h)
  \/ GetToolsCheck(h) \/ GetClient(h) \/ InitializeCached(h) \/ InitializeRPC(h)
  \/ RequestToolsList(h) \/ StoreTools(h) \/ RequestToolsCall(h)
  \/ ReloadLoad(h) \/ ReloadApply(h)
  \/ ShutdownBegin(h) \/ HandlerStopAll(h) \/ HandlerStopNext(h)

NextProtocol ==
  \/ RunStart \/ StartLocalDone \/ MainLoop \/ AcceptConn
  \/ MainStopAll \/ MainStopNext \/ CloseAllClients \/ RunExit
  \/ ConnectProtocol
  \/ \E h \in 1..MaxProtocolConns : ProtocolHandlerStep(h)

SpecProtocol == InitProtocol /\ [][NextProtocol]_vars

\* ------------------------------------------------ the start-up specification
\* Each `mcpx --daemon` command k runs StartDaemonBackground and forks daemon process k.
\* IsDaemonRunning: the socket file exists, and a dial and a ping over it are answered
IsDaemonRunning == boot.socket # 0 /\ boot.daemon[boot.socket] = "serving"

InitStart ==
  /\ configFile = ConfigFileOf(BaseServers)
  /\ config = BaseServers
  /\ conn = [i \in 1..MaxReloadConns |-> IdleConn]
  /\ InitStores /\ InitProcess
  /\ probe = NoProbe
  /\ boot = NoBoot

StartUnchanged ==
  UNCHANGED <<oauth, probe, storeVars, now, daemonVars, runVars, conn, superVars, fetchedG>>

\* StartDaemonBackground: the first IsDaemonRunning
StartCheck(k) ==
  /\ boot.starter[k] = "idle"
  /\ boot' = [boot EXCEPT !.starter[k] = IF IsDaemonRunning THEN "already" ELSE "fork"]
  /\ StartUnchanged

\* StartDaemonBackground: ForkExec of `mcpx --daemon-foreground`
StartFork(k) ==
  /\ boot.starter[k] = "fork"
  /\ boot' = [boot EXCEPT !.starter[k] = "sleep", !.daemon[k] = "run"]
  /\ StartUnchanged

\* StartDaemonBackground: the second IsDaemonRunning, after the 500ms sleep
StartVerify(k) ==
  /\ boot.starter[k] = "sleep"
  /\ boot' = [boot EXCEPT !.starter[k] = IF IsDaemonRunning THEN "started" ELSE "failed"]
  /\ StartUnchanged

\* Run: "Remove stale socket"
RunRemoveSocket(d) ==
  /\ boot.daemon[d] = "run"
  /\ boot' = [boot EXCEPT !.socket = 0, !.daemon[d] = "pid"]
  /\ StartUnchanged

\* Run: "Write PID file"
RunWritePID(d) ==
  /\ boot.daemon[d] = "pid"
  /\ boot' = [boot EXCEPT !.pidFile = d, !.daemon[d] = "listen"]
  /\ StartUnchanged

\* Run: net.Listen; bind fails when the socket file exists, Run returns the error and
\* runDaemonForeground exits
RunListen(d) ==
  /\ boot.daemon[d] = "listen"
  /\ boot' = IF boot.socket # 0
               THEN [boot EXCEPT !.daemon[d] = "exited"]
               ELSE [boot EXCEPT !.socket = d, !.daemon[d] = "serving"]
  /\ StartUnchanged

\* Run: the accept loop ends (shutdown command or signal)
RunLoopExit(d) ==
  /\ boot.daemon[d] = "serving"
  /\ boot' = [boot EXCEPT !.daemon[d] = "cleanup"]
  /\ StartUnchanged

\* Run: cleanup closes the listener and removes both files, and the process exits
RunCleanup(d) ==
  /\ boot.daemon[d] = "cleanup"
  /\ boot' = [boot EXCEPT !.socket = 0, !.pidFile = 0, !.daemon[d] = "exited"]
  /\ StartUnchanged

NextStart ==
  \E k \in 1..MaxStarts :
    \/ StartCheck(k) \/ StartFork(k) \/ StartVerify(k)
    \/ RunRemoveSocket(k) \/ RunWritePID(k) \/ RunListen(k)
    \/ RunLoopExit(k) \/ RunCleanup(k)

SpecStart == InitStart /\ [][NextStart]_vars

\* ---------------------------------------------- the pinned-transport specification
\* Request split at client.Do: the request is written once the transport hands out a
\* connection, and the connection goes back to the transport when the body has been read
\* and closed. pc "awaiting" is a handler between the two.
InitPinned ==
  /\ configFile = ConfigFileOf(BaseServers)
  /\ config = BaseServers
  /\ conn = [i \in 1..MaxPinnedConns |-> IdleConn]
  /\ InitCommon

\* (a persistent client whose transport has no connection limit)
MaxConnsPerHostUnlimited(c) == 0

\* the Transport's MaxConnsPerHost: 1 in NewPersistentHTTPClient, Go's zero value (no
\* limit) in NewHTTPClient
MaxConnsPerHost(c) == IF c.persistent THEN 1 ELSE 0

\* the requests of client c that have been written and not yet answered
InFlight(c) == {h \in Conns : At(h, "awaiting") /\ conn[h].client = c}

\* client.Do can take a connection of c's transport
ConnAvailable(c) ==
  \/ MaxConnsPerHost(clientObjs[c]) = 0
  \/ Cardinality(InFlight(c)) < MaxConnsPerHost(clientObjs[c])

\* Initialize's request and answer, over a connection of the client's transport
InitializePinned(h) ==
  /\ At(h, "initialize") /\ ConnAvailable(conn[h].client)
  /\ InitializeRPC(h)

\* CallTool's Request up to client.Do: the tools/call request is written
RequestSend(h) ==
  /\ Alive /\ At(h, "request") /\ conn[h].cmd.Action = "call"
  /\ ConnAvailable(conn[h].client)
  /\ conn' = [conn EXCEPT ![h].pc = "awaiting"]
  /\ UNCHANGED <<sideVars, storeVars, now, daemonVars, runVars, superVars, fetchedG>>

\* Request after client.Do: the answer is read, the body closed, and the Response written
RequestReceive(h) ==
  /\ Alive /\ At(h, "awaiting")
  /\ \E ok \in BOOLEAN :
       conn' = Finish(h, IF ok THEN okResponse("result") ELSE errResponse("MCP_ERROR"))
  /\ UNCHANGED <<sideVars, storeVars, now, daemonVars, runVars, superVars, fetchedG>>

NextPinned ==
  \/ RunStart \/ StartLocalDone \/ MainLoop \/ AcceptConn
  \/ ConnectPinned
  \/ \E h \in 1..MaxPinnedConns :
       \/ GetClient(h) \/ InitializeCached(h) \/ InitializePinned(h)
       \/ RequestSend(h) \/ RequestReceive(h)

SpecPinned == InitPinned /\ [][NextPinned]_vars

\* ----------------------------------------------------- the token specification
NextToken ==
  \/ RunStart \/ StartLocalDone \/ MainLoop \/ AcceptConn
  \/ ConnectToken \/ Tick
  \/ \E h \in 1..MaxTokenConns :
       \/ GetClient(h) \/ InitializeCached(h) \/ InitializeRPC(h) \/ RequestToolsCall(h)

SpecToken == InitToken /\ [][NextToken]_vars

\* ------------------------------------------------------ the wire specification
\* strings.TrimSpace on a sequence of pieces
RECURSIVE TrimLeft(_)
TrimLeft(t) == IF t # <<>> /\ Head(t) \in Whitespace THEN TrimLeft(Tail(t)) ELSE t
RECURSIVE TrimRight(_)
TrimRight(t) ==
  IF t # <<>> /\ t[Len(t)] \in Whitespace THEN TrimRight(SubSeq(t, 1, Len(t) - 1)) ELSE t
TrimSpace(t) == TrimRight(TrimLeft(t))

\* strings.Split(t, "\n"): the pieces between newlines, empty lines included
RECURSIVE SplitFrom(_, _)
SplitFrom(t, line) ==
  IF t = <<>> THEN <<line>>
  ELSE IF Head(t) = "nl" THEN <<line>> \o SplitFrom(Tail(t), <<>>)
       ELSE SplitFrom(Tail(t), Append(line, Head(t)))
Split(t) == SplitFrom(t, <<>>)

\* json.Unmarshal into an MCPResponse: whitespace around one JSON value is allowed,
\* anything else is an error
Unmarshal(t) ==
  LET v == TrimSpace(t) IN
  IF Len(v) = 1 /\ v[1] \in {"j1", "j2"} THEN [err |-> FALSE, resp |-> v[1]]
                                          ELSE [err |-> TRUE, resp |-> ""]

HasPrefixData(line) == line # <<>> /\ Head(line) = "data:"

\* (a scan that gives up at the first data line that does not decode)
RECURSIVE ScanLinesFirstOnly(_)
ScanLinesFirstOnly(lines) ==
  IF lines = <<>> THEN [err |-> TRUE, resp |-> ""]
  ELSE IF HasPrefixData(Head(lines)) /\ TrimSpace(Tail(Head(lines))) # <<>>
         THEN Unmarshal(TrimSpace(Tail(Head(lines))))
         ELSE ScanLinesFirstOnly(Tail(lines))

\* parseSSEResponse's loop: the first line with the prefix whose trimmed rest is not
\* empty and decodes; err = TRUE when the loop ends without returning
RECURSIVE ScanLines(_)
ScanLines(lines) ==
  IF lines = <<>> THEN [err |-> TRUE, resp |-> ""]
  ELSE LET line == Head(lines)
           dataStr == TrimSpace(Tail(line))
       IN IF HasPrefixData(line) /\ dataStr # <<>> /\ ~Unmarshal(dataStr).err
            THEN Unmarshal(dataStr)
            ELSE ScanLines(Tail(lines))

parseSSEResponse(text) ==
  LET found == ScanLines(Split(TrimSpace(text))) IN
  IF ~found.err THEN found ELSE Unmarshal(text)

\* a body arrives and parseSSEResponse is called with it
InitSSE == \E text \in Bodies : probe = [NoProbe EXCEPT !.fn = "sse", !.text = text]

ApplyParseSSE ==
  /\ probe.fn = "sse" /\ ~probe.applied
  /\ LET r == parseSSEResponse(probe.text) IN
     probe' = [probe EXCEPT !.applied = TRUE, !.resp = r.resp, !.err = r.err]
  /\ UNCHANGED <<oauth, boot, storeVars, now, daemonVars, runVars, conn, superVars, fetchedG>>

defaultHeaders ==
  [k \in HeaderNames |->
     IF k = "Content-Type" THEN "application/json"
     ELSE IF k = "Accept" THEN "application/json, text/event-stream" ELSE Unset]

\* Header.Set of every entry of a map onto the headers so far
SetAll(headers, entries) ==
  [k \in HeaderNames |-> IF entries[k] # Unset THEN entries[k] ELSE headers[k]]

Bearer(token) == "Bearer " \o token

\* (a composition that applies the server's static headers last)
RequestHeadersStaticLast(static, oauthToken, sessionID) ==
  LET h1 == IF oauthToken # "" THEN [defaultHeaders EXCEPT !["Authorization"] = Bearer(oauthToken)]
                               ELSE defaultHeaders
      h2 == IF sessionID # "" THEN [h1 EXCEPT !["Mcp-Session-Id"] = sessionID] ELSE h1
  IN SetAll(h2, static)

\* MCPClient.Request: default headers, the server's headers, the OAuth token, the session
RequestHeaders(static, oauthToken, sessionID) ==
  LET h1 == SetAll(SetAll([k \in HeaderNames |-> Unset], defaultHeaders), static)
      h2 == IF oauthToken # "" THEN [h1 EXCEPT !["Authorization"] = Bearer(oauthToken)] ELSE h1
  IN IF sessionID # "" THEN [h2 EXCEPT !["Mcp-Session-Id"] = sessionID] ELSE h2

\* a client with any static headers, token and session is about to send a request
InitHeaders ==
  \E static \in StaticHeaders, oauthToken \in {"", "tok1"}, sessionID \in SessionIds :
    probe = [NoProbe EXCEPT !.fn = "headers", !.static = static,
                            !.oauthToken = oauthToken, !.sessionID = sessionID]

ApplyRequestHeaders ==
  /\ probe.fn = "headers" /\ ~probe.applied
  /\ probe' = [probe EXCEPT !.applied = TRUE,
                            !.headers = RequestHeaders(probe.static, probe.oauthToken,
                                                       probe.sessionID)]
  /\ UNCHANGED <<oauth, boot, storeVars, now, daemonVars, runVars, conn, superVars, fetchedG>>

InitWire ==
  /\ configFile = ConfigFileOf(BaseServers)
  /\ config = BaseServers
  /\ conn = [i \in 1..MaxReloadConns |-> IdleConn]
  /\ InitStores
  /\ InitDaemon
  /\ InitSSE \/ InitHeaders

NextWire == ApplyParseSSE \/ ApplyRequestHeaders

SpecWire == InitWire /\ [][NextWire]_vars

\* ----------------------------------------------------- the OAuth specification
\* DoOAuthFlow's comparison of the recorded state with the generated one
StateMatches(received, generated) == received = generated

\* DoOAuthFlow up to waitForCallback: discovery and registration succeed or the flow
\* returns an error; then PKCE, state, newOAuthCallbackServer, start, openBrowser
FlowBegin(ok) ==
  /\ oauth.pc = "none"
  /\ oauth' = IF ok THEN [oauth EXCEPT !.pc = "wait", !.state = GeneratedState]
                    ELSE [oauth EXCEPT !.pc = "failed"]
  /\ UNCHANGED <<probe, boot, storeVars, now, daemonVars, runVars, conn, superVars, fetchedG>>

OAuthUnchanged ==
  UNCHANGED <<probe, boot, configFile, writes, sessions, now, daemonVars, runVars, conn,
              superVars, fetchedG>>

\* the listener serves until Shutdown begins
Serving == oauth.pc = "wait"
\* the process is alive: no panic, and main has not returned from DoOAuthFlow
FlowAlive == oauth.pc \in {"wait", "shutdown", "check", "exchange"}

\* net/http accepts a request to /callback and starts handleCallback in its goroutine
CallbackArrives(k, q) ==
  /\ Serving
  /\ oauth.cb[k].pc = "idle"
  /\ \A j \in 1..MaxCallbacks : j < k => oauth.cb[j].pc # "idle"
  /\ oauth' = [oauth EXCEPT !.cb[k] = [pc |-> "entered", query |-> q]]
  /\ tokens' = tokens
  /\ OAuthUnchanged

\* handleCallback's branch: s.authCode = code, or s.err = errMsg and the 400 page, or 404
HandleCallbackCode(k) ==
  /\ FlowAlive
  /\ oauth.cb[k].pc = "entered"
  /\ LET q == oauth.cb[k].query IN
     oauth' = IF q.code # ""
                THEN [oauth EXCEPT !.authCode = q.code, !.cb[k].pc = "state"]
                ELSE IF q.error # ""
                  THEN [oauth EXCEPT !.err = q.error, !.cb[k].pc = "sleep"]
                  ELSE [oauth EXCEPT !.cb[k].pc = "sleep"]
  /\ tokens' = tokens
  /\ OAuthUnchanged

\* handleCallback: s.state = query.Get("state"), the success page, and the goroutine that
\* will signal completion
HandleCallbackState(k) ==
  /\ FlowAlive
  /\ oauth.cb[k].pc = "state"
  /\ oauth' = [oauth EXCEPT !.cbState = oauth.cb[k].query.state, !.cb[k].pc = "sleep"]
  /\ tokens' = tokens
  /\ OAuthUnchanged

\* the completion goroutine after its 100ms: close(s.done); closing a closed channel
\* panics and ends the process
CloseDone(k) ==
  /\ FlowAlive
  /\ oauth.cb[k].pc = "sleep"
  /\ oauth' = IF oauth.doneClosed
                THEN [oauth EXCEPT !.pc = "panic", !.cb[k].pc = "closed"]
                ELSE [oauth EXCEPT !.doneClosed = TRUE, !.cb[k].pc = "closed"]
  /\ tokens' = tokens
  /\ OAuthUnchanged

\* waitForCallback: the select returns on done or on the 2-minute timeout, and
\* server.Shutdown begins: no further request is accepted
WaitForCallback(timeout) ==
  /\ oauth.pc = "wait"
  /\ oauth.doneClosed \/ timeout
  /\ oauth' = [oauth EXCEPT !.pc = "shutdown"]
  /\ tokens' = tokens
  /\ OAuthUnchanged

\* server.Shutdown returns once no handler is running
ShutdownReturns ==
  /\ oauth.pc = "shutdown"
  /\ \A k \in 1..MaxCallbacks : oauth.cb[k].pc \notin {"entered", "state"}
  /\ oauth' = [oauth EXCEPT !.pc = "check"]
  /\ tokens' = tokens
  /\ OAuthUnchanged

\* DoOAuthFlow's three checks and, when they pass, the POST to the token endpoint
Validate ==
  /\ oauth.pc = "check"
  /\ oauth' = IF oauth.err # "" \/ oauth.authCode = ""
                   \/ ~StateMatches(oauth.cbState, oauth.state)
                THEN [oauth EXCEPT !.pc = "failed"]
                ELSE [oauth EXCEPT !.pc = "exchange", !.sent = oauth.authCode]
  /\ tokens' = tokens
  /\ OAuthUnchanged

\* the token endpoint's answer: an error or a status other than 200/201 fails the flow;
\* otherwise the decoded TokenData is saved under the server's name
Exchange(answer) ==
  /\ oauth.pc = "exchange"
  /\ IF answer.ok
       THEN /\ oauth' = [oauth EXCEPT !.pc = "done"]
            /\ tokens' = [tokens EXCEPT !["s1"] =
                             TokenData(answer.AccessToken, answer.RefreshToken,
                                       IF answer.ExpiresIn > 0 THEN now + answer.ExpiresIn
                                                               ELSE 0)]
       ELSE /\ oauth' = [oauth EXCEPT !.pc = "failed"]
            /\ tokens' = tokens
  /\ OAuthUnchanged

NextOAuth ==
  \/ \E ok \in BOOLEAN : FlowBegin(ok)
  \/ \E k \in 1..MaxCallbacks, q \in Queries : CallbackArrives(k, q)
  \/ \E k \in 1..MaxCallbacks : HandleCallbackCode(k) \/ HandleCallbackState(k) \/ CloseDone(k)
  \/ \E timeout \in BOOLEAN : WaitForCallback(timeout)
  \/ ShutdownReturns
  \/ Validate
  \/ \E answer \in TokenAnswers : Exchange(answer)

SpecOAuth == Init /\ [][NextOAuth]_vars

\* --------------------------------------------- the sessions-store specification
\* servers.json declares two servers that are not session-based; sessions.json is empty
PooledServers == [BaseServers EXCEPT !["s2"].sessionBased = FALSE]

InitStore ==
  /\ configFile = ConfigFileOf(PooledServers)
  /\ config = PooledServers
  /\ conn = [i \in 1..MaxStoreConns |-> IdleConn]
  /\ InitCommon

ConnectStore == \E i \in Conns, cmd \in SessionCommands : Connect(i, cmd)

\* MCPClient.Initialize up to the answer of the initialize request: with no stored id the
\* request is sent; an answer with a session id sets c.sessionID and, for a server that is
\* not session-based, goes on to store it
InitializeRequest(h) ==
  /\ Alive /\ At(h, "initialize")
  /\ LET c == conn[h].client
         name == clientObjs[c].serverName
     IN /\ ~UsesSessionStore(clientObjs[c]) \/ sessions[name] = ""
        /\ \E ok \in BOOLEAN, sid \in SessionIds :
             IF ~ok
               THEN /\ UNCHANGED clientObjs
                    /\ conn' = Finish(h, errResponse("MCP_ERROR"))
               ELSE /\ clientObjs' = [clientObjs EXCEPT ![c].initOKG = TRUE,
                                                        ![c].sessionID = IF sid # "" THEN sid ELSE @]
                    /\ conn' = IF sid # "" /\ UsesSessionStore(clientObjs[c])
                                 THEN [conn EXCEPT ![h].pc = "loadSessions", ![h].sid = sid]
                                 ELSE [conn EXCEPT ![h].pc = "request"]
  /\ UNCHANGED <<sideVars, hFrame, storeVars, now, config, clients, toolsCache, fetchedG>>

\* Initialize: sessions, _ := LoadSessions()
InitializeLoadSessions(h) ==
  /\ Alive /\ At(h, "loadSessions")
  /\ conn' = [conn EXCEPT ![h].snapshot = sessions, ![h].pc = "saveSessions"]
  /\ UNCHANGED <<sideVars, storeVars, now, daemonVars, runVars, superVars, fetchedG>>

\* Initialize: sessions[c.serverName] = sessionID; SaveSessions(sessions)
InitializeSaveSessions(h) ==
  /\ Alive /\ At(h, "saveSessions")
  /\ LET name == clientObjs[conn[h].client].serverName IN
     /\ sessions' = [conn[h].snapshot EXCEPT ![name] = conn[h].sid]
     /\ conn' = [conn EXCEPT ![h].pc = "request", ![h].sid = "",
                             ![h].snapshot = IdleConn.snapshot, ![h].savedG = name]
  /\ UNCHANGED <<sideVars, configFile, writes, tokens, now, daemonVars, runVars, superVars,
                 fetchedG>>

NextStore ==
  \/ RunStart \/ StartLocalDone \/ MainLoop \/ AcceptConn
  \/ ConnectStore
  \/ \E h \in 1..MaxStoreConns :
       \/ GetClient(h) \/ InitializeCached(h) \/ InitializeRequest(h)
       \/ InitializeLoadSessions(h) \/ InitializeSaveSessions(h) \/ RequestToolsCall(h)

SpecStore == InitStore /\ [][NextStore]_vars

\* --------------------------------------------------- the session specification
NextSession ==
  \/ RunStart \/ StartLocalDone \/ MainLoop \/ AcceptConn
  \/ ConnectSession
  \/ \E h \in 1..MaxSessionConns :
       \/ GetClient(h) \/ InitializeCached(h) \/ InitializeRotating(h) \/ RequestToolsCall(h)

SpecSession == InitSession /\ [][NextSession]_vars

\* --------------------------------------------------- the command specification
\* what the supervisor's goroutines do
SupervisorStep ==
  \/ \E p \in 1..MaxProcs : WaitReturns(p)
  \/ \E n \in Names : MonitorRead(n) \/ MonitorWake(n) \/ MonitorRestart(n)

NextCommand ==
  \/ RunStart \/ (\E n \in Names : StartServer(n)) \/ StartLocalDone \/ MainLoop \/ AcceptConn
  \/ ConnectCommand
  \/ \E h \in 1..MaxCommandConns :
       \/ HandlePing(h) \/ HandleUnknown(h)
       \/ GetClient(h) \/ InitializeCached(h) \/ InitializeRPC(h) \/ RequestToolsCall(h)
  \/ SupervisorStep
  \/ \E p \in 1..MaxProcs : ChildExit(p)

SpecCommand == InitCommand /\ [][NextCommand]_vars

\* ------------------------------------------------ the local-reload specification
\* servers.json is rewritten while s2's local process is supervised: local config dropped
\* from s2, s2 removed, a local config added to s1, s2's url changed
LocalFileValues ==
  {ConfigFileOf(LocalServers),
   ConfigFileOf([LocalServers EXCEPT !["s2"] = Base2]),
   ConfigFileOf([LocalServers EXCEPT !["s2"] = Absent]),
   ConfigFileOf([LocalServers EXCEPT !["s1"].local = TRUE]),
   ConfigFileOf([LocalServers EXCEPT !["s2"].url = "urlD"])}

WriteLocalConfig ==
  /\ writes < MaxWrites
  /\ writes' = writes + 1
  /\ \E v \in LocalFileValues \ {configFile} : configFile' = v
  /\ UNCHANGED <<sideVars, tokens, sessions, now, daemonVars, runVars, conn, superVars, fetchedG>>

InitLocalReload ==
  /\ configFile = ConfigFileOf(LocalServers)
  /\ config = LocalServers
  /\ conn = [i \in 1..MaxLocalReloadConns |-> IdleConn]
  /\ InitCommon

NextLocalReload ==
  \/ RunStart \/ (\E n \in Names : StartServer(n)) \/ StartLocalDone \/ MainLoop \/ AcceptConn
  \/ ConnectLocalReload \/ WriteLocalConfig
  \/ \E h \in 1..MaxLocalReloadConns :
       \/ ReloadLoad(h) \/ ReloadApply(h)
       \/ GetClient(h) \/ InitializeRPC(h) \/ RequestToolsCall(h)
  \/ SupervisorStep
  \/ \E p \in 1..MaxProcs : ChildExit(p)

SpecLocalReload == InitLocalReload /\ [][NextLocalReload]_vars

\* ------------------------------------------------- the lifecycle specification
\* what the goroutine of Run does
MainStep ==
  \/ RunStart \/ (\E n \in Names : StartServer(n)) \/ StartLocalDone \/ MainLoop
  \/ AcceptConn \/ AcceptError
  \/ MainStopAll \/ MainStopNext \/ MainStopWait \/ MainStopKilled
  \/ CloseAllClients \/ RunExit

\* what the handler goroutine of connection h does
HandlerStep(h) ==
  \/ HandlePing(h)
  \/ ShutdownBegin(h) \/ HandlerStopAll(h) \/ HandlerStopNext(h)
  \/ HandlerStopWait(h) \/ HandlerStopKilled(h)

NextLife ==
  \/ MainStep
  \/ \E h \in 1..MaxLifeConns : HandlerStep(h)
  \/ SupervisorStep
  \/ SignalHandler
  \/ ConnectLife \/ SignalArrives
  \/ \E p \in 1..MaxProcs : ChildExit(p)

SpecLife == InitLife /\ [][NextLife]_vars

\* The Go scheduler runs every runnable goroutine; the CLI side, the operator who signals
\* and a healthy child owe the daemon nothing.
FairLife ==
  /\ SpecLife
  /\ WF_vars(MainStep)
  /\ \A h \in 1..MaxLifeConns : WF_vars(HandlerStep(h))
  /\ WF_vars(SupervisorStep)
  /\ WF_vars(SignalHandler)

\* ------------------------------------------------------------------ claims
\* a step in which handler h runs reloadConfig's locked section
ReloadStep(h) == At(h, "reloadApply") /\ conn'[h].st = "closed"

\* C1. Reload idempotence: a reload that loads the config the daemon already holds
\* leaves the clients map, every client and the tools cache exactly as they were.
C1_ReloadIdempotent ==
  [][\A h \in Conns :
       (ReloadStep(h) /\ conn[h].loaded = config)
         => (clients' = clients /\ clientObjs' = clientObjs /\ toolsCache' = toolsCache)]_vars

\* a reload of an unchanged config has run while a client was cached
C1_Witness ==
  \E h \in Conns : conn[h].noteG.kind = "reload" /\ conn[h].noteG.same
                   /\ conn[h].noteG.kept # {}

\* C2. After reload, a server that had a cached client and whose url or sessionBased
\* differs between the old and the new config has its client closed and is absent from
\* the clients map and from the tools cache.
C2_ReloadEvictsChanged ==
  [][\A h \in Conns : \A n \in Names :
       (/\ ReloadStep(h)
        /\ clients[n] # 0 /\ config[n].present /\ conn[h].loaded[n].present
        /\ \/ config[n].url # conn[h].loaded[n].url
           \/ config[n].sessionBased # conn[h].loaded[n].sessionBased)
         => (/\ clientObjs'[clients[n]].closed
             /\ clients'[n] = 0
             /\ ~toolsCache'[n].present)]_vars

\* a reload has evicted a client because sessionBased changed, another because the url did
C2_Witness ==
  \E h \in Conns : conn[h].noteG.kind = "reload" /\ conn[h].noteG.changed # {}

\* C3. After reload, a server that had a cached client and is no longer in the new
\* config has its client closed and is absent from the clients map and the tools cache.
C3_ReloadEvictsRemoved ==
  [][\A h \in Conns : \A n \in Names :
       (ReloadStep(h) /\ clients[n] # 0 /\ ~conn[h].loaded[n].present)
         => (/\ clientObjs'[clients[n]].closed
             /\ clients'[n] = 0
             /\ ~toolsCache'[n].present)]_vars

C3_Witness ==
  \E h \in Conns : conn[h].noteG.kind = "reload" /\ conn[h].noteG.removed # {}

\* C4. A server name has an entry in the tools cache only if it has one in the clients map.
C4_CacheOnlyWithClient ==
  \A n \in Names : toolsCache[n].present => clients[n] # 0

\* the entries that successful tools commands stored for s, not evicted and not expired
Prior(s) == {r \in fetchedG[s] : now < r.Expires}

\* a step of the handler of a tools command for a server with such an entry
ToolsStepWithPrior(h) ==
  /\ At(h, "read") /\ conn[h].cmd.wellFormed /\ conn[h].cmd.Action = "tools"
  /\ conn[h].cmd.Server \in Names
  /\ Prior(conn[h].cmd.Server) # {}
  /\ conn'[h] # conn[h]

\* C5 as claimed. A tools command that follows a successful one before its entry expires,
\* with no eviction between, answers at once (no upstream request) with the same list.
C5_CacheHitSameList ==
  [][\A h \in Conns :
       ToolsStepWithPrior(h)
         => (/\ conn'[h].st = "closed" /\ conn'[h].resp.OK
             /\ \A r \in Prior(conn[h].cmd.Server) : conn'[h].resp.Data = r.Tools)]_vars

\* C5 as amended. It answers at once (no upstream request) with the list of the entry the
\* cache holds, which is the one stored last among those commands' entries.
C5_CacheHitServesEntry ==
  [][\A h \in Conns :
       ToolsStepWithPrior(h)
         => (/\ conn'[h].st = "closed"
             /\ conn'[h].resp = okResponse(toolsCache[conn[h].cmd.Server].Tools)
             /\ toolsCache[conn[h].cmd.Server] \in Prior(conn[h].cmd.Server)
             /\ \A r \in Prior(conn[h].cmd.Server) :
                  r.Expires <= toolsCache[conn[h].cmd.Server].Expires)]_vars

\* a tools command was answered from the cache
C5_Witness ==
  \E h \in Conns : conn[h].noteG.kind = "hit" /\ conn[h].resp.OK

\* a step of handler h on a well-formed command whose action handleCommand does not know
UnknownActionStep(h) ==
  /\ At(h, "read") /\ conn[h].cmd.wellFormed /\ conn[h].cmd.Action \notin KnownActions
  /\ conn'[h] # conn[h]

\* C6. A command with an unknown action is answered with UNKNOWN_ACTION, and the step that
\* answers it leaves the config, the clients, the tools cache, the running flag and the
\* supervised processes as they were.
C6_UnknownActionFrame ==
  [][\A h \in Conns :
       UnknownActionStep(h)
         => /\ conn'[h].st = "closed"
            /\ conn'[h].resp = errResponse("UNKNOWN_ACTION")
            /\ UNCHANGED <<config, clients, clientObjs, toolsCache, running, processes, procs,
                           monitor>>]_vars

\* an unknown action has been answered by a daemon that is running, supervises a child
\* and holds a client
C6_Witness ==
  \E h \in Conns :
    /\ conn[h].st = "closed" /\ conn[h].resp.Code = "UNKNOWN_ACTION"
    /\ running /\ \E n \in Names : processes[n] # 0 /\ procs[processes[n]].alive
    /\ \E n \in Names : clients[n] # 0

\* C7. Once Run has removed the socket file, every child the supervisor started has exited
\* and its done channel is closed.
C7_ChildrenDoneBeforeSocketRemoved ==
  mainPc = "stopped" => \A p \in DOMAIN procs : procs[p].started => procs[p].done

\* C8. A connection that arrives after a shutdown command has set running to false is
\* never accepted, so its command is never dispatched.
C8_NoAcceptAfterShutdown ==
  \A h \in Conns : conn[h].lateG => conn[h].st \notin {"running", "closed"}

\* a shutdown command has been answered
ShutdownHandled ==
  \E h \in Conns : conn[h].st = "closed" /\ conn[h].cmd.Action = "shutdown" /\ conn[h].resp.OK

\* C9. After a shutdown command has been handled, Run leaves the accept loop and finishes
\* its cleanup, whether or not a further connection or signal arrives.
C9_ShutdownCompletes == ShutdownHandled ~> (mainPc = "stopped")

\* C10. Once an Initialize has succeeded on a client, no later ListTools or CallTool on
\* that client (not closed since) sends another initialize request.
C10_InitializeOnce ==
  [][\A h \in Conns : InitializeRPC(h) => ~clientObjs[conn[h].client].initOKG]_vars

\* a step in which handler h runs Initialize on a session-based client
SessionBasedInitialize(h) ==
  /\ At(h, "initialize") /\ clientObjs[conn[h].client].sessionBased
  /\ conn'[h] # conn[h]

\* C11. Session affinity: when the initialize request that Initialize sends on a
\* session-based client carries a non-empty Mcp-Session-Id, the request the same handler
\* sends next on that client carries the same id, whatever the server answered.
C11_SessionAffinity ==
  [][\A h \in Conns :
       (SessionBasedInitialize(h) /\ conn'[h].pc = "request"
          /\ clientObjs[conn[h].client].sessionID # "")
         => clientObjs'[conn[h].client].sessionID = clientObjs[conn[h].client].sessionID]_vars

\* C12. Initialize on a session-based client neither adopts the entry of sessions.json
\* (it sends the initialize request) nor changes sessions.json.
C12_SessionBasedSkipsStore ==
  [][\A h \in Conns :
       SessionBasedInitialize(h) => (InitializeRotating(h) /\ sessions' = sessions)]_vars

\* a session-based client was initialized and holds a session id of its own while
\* sessions.json holds another entry for its server
C12_Witness ==
  \E c \in DOMAIN clientObjs :
    /\ clientObjs[c].sessionBased /\ clientObjs[c].initOKG
    /\ clientObjs[c].sessionID # ""
    /\ sessions[clientObjs[c].serverName] \notin {"", clientObjs[c].sessionID}

\* C13. For a server with a stored token record, GetTokenForServer returns the record's
\* access token exactly when the record has no expiry or the clock is at most 60s before
\* it, whatever the token endpoint would answer.
C13_TokenExpiry ==
  \A n \in Names, answer \in TokenAnswers :
    tokens[n].present /\ config[n].present
      => ((GetTokenForServer(n, config[n], tokens, now, answer).token = tokens[n].AccessToken)
            <=> (tokens[n].ExpiresAt = 0 \/ now <= tokens[n].ExpiresAt - TokenSkew))

\* getClient has handed a client the stored token at the last moment before the buffer,
\* and has handed a client no token for a record inside the buffer
C13_Witness ==
  \E c \in DOMAIN clientObjs :
    LET rec == tokens[clientObjs[c].serverName] IN
    /\ rec.present /\ rec.ExpiresAt > 0 /\ rec.RefreshToken = ""
    /\ \/ now = rec.ExpiresAt - TokenSkew /\ clientObjs[c].oauthToken = rec.AccessToken
       \/ now = rec.ExpiresAt - TokenSkew + 1 /\ clientObjs[c].oauthToken = ""

\* C14. What GetTokenForServer returns for an expired record that cannot be refreshed
\* differs from what it returns when no record is stored.
C14_ReauthDistinguishable ==
  \A n \in Names, answer \in TokenAnswers :
    (/\ tokens[n].present /\ config[n].present
     /\ Expired(tokens[n], now)
     /\ tokens[n].RefreshToken = "" \/ ~answer.ok)
      => LET expired == GetTokenForServer(n, config[n], tokens, now, answer)
             none == GetTokenForServer(n, config[n], [tokens EXCEPT ![n] = NoToken], now, answer)
         IN <<expired.token, expired.err>> # <<none.token, none.err>>

\* a request to /callback that carried this code and this state has been received
Carried(code, state) ==
  \E k \in 1..MaxCallbacks :
    /\ oauth.cb[k].pc # "idle"
    /\ oauth.cb[k].query.code = code /\ oauth.cb[k].query.state = state

\* C15. A token request is sent only with a non-empty code that arrived on a callback
\* carrying the exact generated state: a callback whose state differs never has its code
\* exchanged, and the token store changes only after such an exchange.
C15_StateCheckedBeforeExchange ==
  /\ oauth.sent # "" => Carried(oauth.sent, oauth.state)
  /\ oauth.sent = "" => tokens = [n \in Names |-> IF n = "s1" THEN TokenData("tok1", "", 0) ELSE NoToken]

\* with the state recorded on the listener: a token request is sent only when it equals
\* the generated one, and after some callback carried a code and the generated state
RecordedStateChecked ==
  oauth.sent # ""
    => /\ oauth.cbState = oauth.state
       /\ \E code \in {q.code : q \in Queries} \ {""} : Carried(code, oauth.state)

\* the lines of a body, and those that carry the prefix and a payload that decodes
BodyLines(text) == Split(TrimSpace(text))
Payload(line) == SubSeq(line, 2, Len(line))
DecodingLines(text) ==
  {i \in 1..Len(BodyLines(text)) :
     /\ HasPrefixData(BodyLines(text)[i])
     /\ ~Unmarshal(Payload(BodyLines(text)[i])).err}
FirstDecodingLine(text) ==
  CHOOSE i \in DecodingLines(text) : \A j \in DecodingLines(text) : i <= j

\* C16. parseSSEResponse returns the decode of the first data:-prefixed line whose payload
\* decodes; when no such line exists it returns the decode of the whole body; it returns
\* an error only when neither decodes.
C16_ParseSSE ==
  (probe.fn = "sse" /\ probe.applied)
    => /\ DecodingLines(probe.text) # {}
            => /\ ~probe.err
               /\ probe.resp =
                    Unmarshal(Payload(BodyLines(probe.text)[FirstDecodingLine(probe.text)])).resp
       /\ (DecodingLines(probe.text) = {} /\ ~Unmarshal(probe.text).err)
            => (~probe.err /\ probe.resp = Unmarshal(probe.text).resp)
       /\ probe.err <=> (DecodingLines(probe.text) = {} /\ Unmarshal(probe.text).err)

\* a body whose first data line carries a payload that does not decode and whose later
\* data line decodes has been parsed to the later line's response
C16_Witness ==
  /\ probe.fn = "sse" /\ probe.applied /\ ~probe.err
  /\ \E i, j \in 1..Len(BodyLines(probe.text)) :
       /\ i < j
       /\ HasPrefixData(BodyLines(probe.text)[i]) /\ i \notin DecodingLines(probe.text)
       /\ TrimSpace(Payload(BodyLines(probe.text)[i])) # <<>>
       /\ j \in DecodingLines(probe.text)
       /\ probe.resp = Unmarshal(Payload(BodyLines(probe.text)[j])).resp

\* C17. On an outgoing request a non-empty OAuth token is sent as Authorization: Bearer
\* <token> whatever the server's static headers say, and Mcp-Session-Id is sent exactly
\* when the client's session ID is non-empty.
C17_HeaderComposition ==
  (probe.fn = "headers" /\ probe.applied)
    => /\ probe.oauthToken # "" => probe.headers["Authorization"] = Bearer(probe.oauthToken)
       /\ probe.headers["Mcp-Session-Id"] # Unset <=> probe.sessionID # ""

\* C17, as the code has it: a non-empty session ID is sent as Mcp-Session-Id; with an empty
\* session ID the header is whatever the server's static headers make it.
C17_HeaderCompositionStatic ==
  (probe.fn = "headers" /\ probe.applied)
    => /\ probe.oauthToken # "" => probe.headers["Authorization"] = Bearer(probe.oauthToken)
       /\ probe.sessionID # "" => probe.headers["Mcp-Session-Id"] = probe.sessionID
       /\ probe.sessionID = "" => probe.headers["Mcp-Session-Id"] = probe.static["Mcp-Session-Id"]

\* a request has been composed for a client with a token and no session whose server
\* config sets both Authorization and Mcp-Session-Id
C17_Witness ==
  /\ probe.fn = "headers" /\ probe.applied
  /\ probe.oauthToken # "" /\ probe.static["Authorization"] # Unset
  /\ probe.sessionID = "" /\ probe.static["Mcp-Session-Id"] # Unset

\* the monitor of n ends its restart delay
RestartDelayEnds(n) == monitor[n].pc = "sleep" /\ monitor'[n].pc # "sleep"

\* C18. When the restart delay of a monitor ends and Stop has been called on the process
\* it watched, no LocalProcess is constructed or started and the map is left alone.
C18_StoppingSuppressesRestart ==
  [][\A n \in Names :
       (RestartDelayEnds(n) /\ procs[monitor[n].proc].stopping)
         => (procs' = procs /\ processes' = processes /\ monitor'[n].pc = "none")]_vars

\* a process crashed, its monitor is in the restart delay, and StopAll has since called
\* Stop on the process
C18_Witness ==
  \E n \in Names :
    /\ monitor[n].pc = "sleep"
    /\ procs[monitor[n].proc].stopping /\ procs[monitor[n].proc].done
    /\ processes[n] = 0

\* done of every LocalProcess is closed at most once, and only for a started child that
\* has exited
DoneOnlyAfterExit ==
  \A p \in DOMAIN procs :
    /\ procs[p].closesG <= 1
    /\ procs[p].done <=> procs[p].closesG = 1
    /\ procs[p].done => (procs[p].started /\ ~procs[p].alive)

\* C19. done of a LocalProcess whose child was started is raised once, after the child has
\* exited: never while it runs, never a second time, and, as long as the daemon lives,
\* eventually once it has exited.
C19_DoneOnce ==
  /\ []DoneOnlyAfterExit
  /\ \A p \in 1..MaxProcs :
       (p \in DOMAIN procs /\ procs[p].started /\ ~procs[p].alive)
         ~> ((p \in DOMAIN procs /\ procs[p].done) \/ ~Alive)

\* a child that ran has exited and the wait goroutine has closed done, once
C19_Witness ==
  \E p \in DOMAIN procs :
    /\ procs[p].started /\ ~procs[p].alive /\ ~procs[p].signaled
    /\ procs[p].done /\ procs[p].closesG = 1

\* the monitor of n ends its restart delay with n still tracked: it either installs a
\* running LocalProcess for n whose Restarts is the tracked process's plus one, or, the
\* start having failed, removes the entry
RestartInstallsOrRemoves(n) ==
  LET new == Len(procs') IN
  \/ /\ processes'[n] = new /\ new = Len(procs) + 1
     /\ procs'[new].Name = n /\ procs'[new].started /\ procs'[new].alive
     /\ procs'[new].Restarts = procs[processes[n]].Restarts + 1
  \/ /\ processes'[n] = 0
     /\ \/ procs' = procs
        \/ /\ new = Len(procs) + 1
           /\ procs'[new].Name = n /\ ~procs'[new].alive
           /\ procs'[new].Restarts = procs[processes[n]].Restarts + 1

\* C20. A monitor that has seen its process exit with stopping=false ends its restart
\* delay as long as the daemon lives, and when the name is still tracked at that moment it
\* starts a LocalProcess with the previous counter plus one and installs it, or removes the
\* entry when the start fails.
C20_CrashRestart ==
  /\ [][\A n \in Names :
          (RestartDelayEnds(n) /\ processes[n] # 0) => RestartInstallsOrRemoves(n)]_vars
  /\ \A n \in Names :
       (monitor[n].pc = "sleep" /\ Len(procs) < MaxProcs) ~> (monitor[n].pc # "sleep" \/ ~Alive)

\* a crashed process has been replaced by a running one with restarts = 1
C20_Witness ==
  \E n \in Names :
    /\ processes[n] # 0
    /\ procs[processes[n]].Restarts = 1 /\ procs[processes[n]].alive
    /\ \E p \in DOMAIN procs :
         procs[p].Name = n /\ procs[p].Restarts = 0 /\ procs[p].done /\ ~procs[p].stopping

\* the state of the daemon that commands act on
DaemonState ==
  <<config, clients, clientObjs, toolsCache, running, processes, procs, monitor, tokens,
    sessions, configFile>>

\* a connection has no Response before its handler closes it and exactly one after, and a
\* frame that did not decode was answered with PARSE_ERROR
OneResponsePerConnection ==
  \A h \in Conns :
    /\ conn[h].st # "closed" => (conn[h].writtenG = 0 /\ ~conn[h].resp.sent)
    /\ conn[h].st = "closed" => (conn[h].writtenG = 1 /\ conn[h].resp.sent)
    /\ (conn[h].st = "closed" /\ ~conn[h].cmd.wellFormed)
         => conn[h].resp = errResponse("PARSE_ERROR")

\* C21. Every connection the handler closes carries exactly one Response, written before
\* the close and none after; a frame that fails to decode is answered with PARSE_ERROR in
\* a step that dispatches nothing and leaves the daemon's state unchanged.
C21_PerConnectionProtocol ==
  /\ []OneResponsePerConnection
  /\ [][\A h \in Conns :
          /\ conn[h].st = "closed" => conn'[h] = conn[h]
          /\ (At(h, "read") /\ ~conn[h].cmd.wellFormed /\ conn'[h] # conn[h])
               => /\ conn'[h].st = "closed"
                  /\ conn'[h].resp = errResponse("PARSE_ERROR")
                  /\ UNCHANGED DaemonState]_vars

\* a frame that did not decode has been answered while the daemon holds a client, and
\* another connection has been answered with a result
C21_Witness ==
  /\ \E h \in Conns :
       conn[h].st = "closed" /\ ~conn[h].cmd.wellFormed /\ conn[h].resp.Code = "PARSE_ERROR"
  /\ \E h \in Conns : conn[h].st = "closed" /\ conn[h].resp.OK /\ conn[h].cmd.Action = "tools"
  /\ \E n \in Names : clients[n] # 0

\* a step of the handler of a tools or call command, before any upstream contact, taken
\* while the daemon's config has no entry for the server the command names
AbsentServerStep(h) ==
  /\ conn[h].st = "running" /\ conn[h].pc \in {"read", "getClient"}
  /\ Dispatch(conn[h].cmd) \in {"tools", "call"}
  /\ ~config[conn[h].cmd.Server].present
  /\ conn'[h] # conn[h]

\* C22. A tools or call command for a server the current config does not have is answered
\* with MCP_ERROR: its handler never goes on to contact the upstream, and leaves the
\* clients map and the tools cache unchanged.
C22_AbsentServer ==
  [][\A h \in Conns :
       AbsentServerStep(h)
         => /\ conn'[h].pc \notin {"initialize", "request", "store"}
            /\ conn'[h].st = "closed" => conn'[h].resp = errResponse("MCP_ERROR")
            /\ clients' = clients /\ toolsCache' = toolsCache]_vars

\* a tools command without a server, or a call command without a server or a tool
MissingArgs(cmd) ==
  /\ cmd.wellFormed
  /\ \/ cmd.Action = "tools" /\ cmd.Server = ""
     \/ cmd.Action = "call" /\ (cmd.Server = "" \/ cmd.Tool = "")

\* C23. The handler of a tools command without a server, or of a call command without a
\* server or a tool, answers INVALID_ARGS in its first step: no client is constructed, no
\* upstream is contacted and the daemon's state is unchanged.
C23_InvalidArgs ==
  [][\A h \in Conns :
       (At(h, "read") /\ MissingArgs(conn[h].cmd) /\ conn'[h] # conn[h])
         => /\ conn'[h].st = "closed"
            /\ conn'[h].resp = errResponse("INVALID_ARGS")
            /\ UNCHANGED DaemonState]_vars

\* a call that names a configured server and no tool has been answered INVALID_ARGS, and
\* so has a command without a server
C23_Witness ==
  /\ \E h \in Conns :
       /\ conn[h].st = "closed" /\ conn[h].resp.Code = "INVALID_ARGS"
       /\ conn[h].cmd.Action = "call" /\ conn[h].cmd.Server = "s1" /\ conn[h].cmd.Tool = ""
  /\ \E h \in Conns :
       /\ conn[h].st = "closed" /\ conn[h].resp.Code = "INVALID_ARGS"
       /\ conn[h].cmd.Server = ""

\* getClient's step for a call to server n runs RefreshOAuthToken: no client is cached,
\* the stored record is expired and has a refresh token
RefreshStep(h, n) ==
  /\ At(h, "read") /\ Dispatch(conn[h].cmd) = "call" /\ conn[h].cmd.Server = n
  /\ clients[n] = 0 /\ config[n].present
  /\ tokens[n].present /\ Expired(tokens[n], now) /\ tokens[n].RefreshToken # ""
  /\ conn'[h] # conn[h]

\* C24. When getClient refreshes the token of a server, either the refresh yields an
\* access token, and then the stored record holds that token and the refresh token the
\* endpoint returned, or the previous one if it returned none, or the refresh has failed
\* (GetTokenForServer's "err != nil || newToken == \"\"") and tokens.json is unchanged.
\* Records of other servers are unchanged.
C24_RefreshKeepsRefreshToken ==
  [][\A h \in Conns, n \in Names :
       RefreshStep(h, n)
         => LET newToken == clientObjs'[clients'[n]].oauthToken IN
            /\ \A m \in Names \ {n} : tokens'[m] = tokens[m]
            /\ newToken = "" => tokens' = tokens
            /\ newToken # ""
                 => /\ tokens'[n].present /\ tokens'[n].AccessToken = newToken
                    /\ \E answer \in TokenAnswers :
                         /\ answer.ok /\ answer.AccessToken = newToken
                         /\ tokens'[n].RefreshToken =
                              IF answer.RefreshToken # "" THEN answer.RefreshToken
                                                          ELSE tokens[n].RefreshToken]_vars

\* C24, for the refreshes that return an access token only
C24_SuccessfulRefresh ==
  [][\A h \in Conns, n \in Names :
       (RefreshStep(h, n) /\ clientObjs'[clients'[n]].oauthToken # "")
         => LET newToken == clientObjs'[clients'[n]].oauthToken IN
            /\ tokens'[n].present /\ tokens'[n].AccessToken = newToken
            /\ \E answer \in TokenAnswers :
                 /\ answer.ok /\ answer.AccessToken = newToken
                 /\ tokens'[n].RefreshToken =
                      IF answer.RefreshToken # "" THEN answer.RefreshToken
                                                  ELSE tokens[n].RefreshToken]_vars

\* A Response as it is encoded: ok with no error object (Code = "" stands for a nil Error
\* pointer), or not ok with no data and an error whose code is one of the constants
WellFormedResponse(resp) ==
  \/ resp.OK /\ resp.Code = ""
  \/ ~resp.OK /\ resp.Data = "" /\ resp.Code \in ErrorCodes

\* C25. Every Response a connection handler has written is well formed: ok with no error
\* object, or not ok with no data and an error code from the enumeration.
C25_ResponseWellFormed ==
  \A h \in Conns : conn[h].resp.sent => WellFormedResponse(conn[h].resp)

\* an ok Response and an error Response have both been written
C25_Witness ==
  /\ \E h \in Conns : conn[h].st = "closed" /\ conn[h].resp.sent /\ conn[h].resp.OK
  /\ \E h \in Conns :
       conn[h].st = "closed" /\ conn[h].resp.sent /\ ~conn[h].resp.OK
         /\ conn[h].resp.Code = "UNKNOWN_ACTION"

\* the daemon processes that are in Run's accept loop
ServingDaemons == {d \in 1..MaxStarts : boot.daemon[d] = "serving"}

\* C26. At most one daemon process is serving at any time, and while a daemon is serving
\* no step removes or replaces the socket file or the PID file it created.
C26_SingleDaemon ==
  /\ [](Cardinality(ServingDaemons) <= 1)
  /\ [][\A d \in 1..MaxStarts :
          (boot.daemon[d] = "serving" /\ boot'.daemon[d] = "serving")
            => /\ boot.socket = d => boot'.socket = d
               /\ boot.pidFile = d => boot'.pidFile = d]_vars

\* C27. getTools answers from the cache only when the entry exists and the clock is
\* strictly before its expiry, and then with the entry's list; otherwise it goes on to the
\* server's client and ListTools. The cache changes only when a fetched list is stored, and
\* the stored entry is that list with expiry now + 300s.
C27_CacheFreshness ==
  [][/\ \A h \in Conns :
          (/\ At(h, "read") /\ conn[h].cmd.wellFormed /\ conn[h].cmd.Action = "tools"
           /\ conn[h].cmd.Server \in Names /\ conn'[h] # conn[h])
            => LET cached == toolsCache[conn[h].cmd.Server] IN
               IF cached.present /\ now < cached.Expires
                 THEN conn'[h].st = "closed" /\ conn'[h].resp = okResponse(cached.Tools)
                 ELSE conn'[h].st = "running" /\ conn'[h].pc = "getClient"
     /\ \A n \in Names :
          toolsCache'[n] # toolsCache[n]
            => \E h \in Conns :
                 /\ At(h, "store") /\ conn[h].cmd.Server = n
                 /\ conn'[h].st = "closed" /\ conn'[h].resp = okResponse(conn[h].tools)
                 /\ toolsCache'[n] = [present |-> TRUE, Tools |-> conn[h].tools,
                                      Expires |-> now + 300]]_vars

\* one tools command was answered from the cache, and another, arriving at the instant the
\* entry expires, has gone on to the client
C27_Witness ==
  /\ \E h \in Conns : conn[h].st = "closed" /\ conn[h].noteG.kind = "hit"
  /\ \E h \in Conns :
       /\ At(h, "getClient") /\ conn[h].cmd.Action = "tools"
       /\ toolsCache[conn[h].cmd.Server].present
       /\ now = toolsCache[conn[h].cmd.Server].Expires

\* a step in which handler h runs Initialize on a client that is not session-based
StoreBackedInitialize(h) ==
  /\ At(h, "initialize") /\ ~clientObjs[conn[h].client].sessionBased
  /\ conn'[h] # conn[h]

\* C28. Initialize on a client that is not session-based: with an entry for its server in
\* sessions.json it adopts the entry, cannot fail and leaves sessions.json alone (it sends
\* nothing); without an entry it sends the initialize request, and when that succeeds it
\* either got no session id (client and sessions.json unchanged) or holds the id it got
\* and has stored it under the server's name, other entries untouched.
C28_StoredSessionAdopted ==
  [][\A h \in Conns :
       StoreBackedInitialize(h)
         => LET c == conn[h].client
                name == clientObjs[c].serverName
            IN IF sessions[name] # ""
                 THEN /\ conn'[h].st = "running" /\ conn'[h].pc = "request"
                      /\ clientObjs'[c].sessionID = sessions[name]
                      /\ sessions' = sessions
                 ELSE \/ /\ conn'[h].st = "closed" /\ ~conn'[h].resp.OK
                         /\ sessions' = sessions
                         /\ clientObjs'[c].sessionID = clientObjs[c].sessionID
                      \/ /\ conn'[h].pc = "request"
                         /\ sessions' = sessions
                         /\ clientObjs'[c].sessionID = clientObjs[c].sessionID
                      \/ /\ conn'[h].pc = "request"
                         /\ clientObjs'[c].sessionID # ""
                         /\ sessions' = [sessions EXCEPT ![name] = clientObjs'[c].sessionID]]_vars

\* a handler is about to send its request on a client that adopted an id which only an
\* earlier process can have stored
C28_Witness ==
  \E h \in Conns :
    /\ At(h, "request")
    /\ ~clientObjs[conn[h].client].sessionBased
    /\ clientObjs[conn[h].client].sessionID = "sidOld"
    /\ sessions[clientObjs[conn[h].client].serverName] = "sidOld"

\* the initialize request was sent for want of an entry, and the id it returned is stored
C28_Persisted ==
  \E c \in DOMAIN clientObjs :
    /\ ~clientObjs[c].sessionBased /\ clientObjs[c].sessionID = "sidY"
    /\ sessions[clientObjs[c].serverName] = "sidY"

\* the monitor of n ends its restart delay with n still tracked, and the step does not
\* install a new LocalProcess for n: newProc.Start() has returned an error
RestartFails(n) ==
  /\ RestartDelayEnds(n) /\ processes[n] # 0
  /\ processes'[n] # Len(procs) + 1

\* C29. When the restart of a crashed process fails, the entry of its server is removed
\* from m.processes, the monitor of that name ends, and no child of any LocalProcess of
\* that name is running.
C29_FailedRestart ==
  [][\A n \in Names :
       RestartFails(n)
         => /\ processes'[n] = 0
            /\ monitor'[n].pc = "none"
            /\ \A p \in DOMAIN procs' : procs'[p].Name = n => ~procs'[p].alive]_vars

\* with the daemon still running, a server is no longer tracked or monitored after its
\* process crashed and the restarted child did not become ready and was stopped
C29_Witness ==
  \E n \in Names :
    /\ running /\ processes[n] = 0 /\ monitor[n].pc = "none"
    /\ \E p \in DOMAIN procs :
         procs[p].Name = n /\ procs[p].Restarts = 0 /\ procs[p].done /\ ~procs[p].stopping
    /\ \E p \in DOMAIN procs :
         /\ procs[p].Name = n /\ procs[p].Restarts = 1
         /\ procs[p].started /\ ~procs[p].alive /\ procs[p].done

\* a process has been sent a signal by Stop only if it is marked stopping
SignalOnlyWhenStopping == \A p \in DOMAIN procs : procs[p].signaled => procs[p].stopping

\* C30. LocalProcess.Stop marks the process stopping no later than it signals the child;
\* the Stop of a started process, whether StopAll runs in a shutdown handler or in Run's
\* cleanup, returns only when done is closed; and when the grace wait ends with done still
\* open it kills the child and goes on waiting for done.
C30_StopOrdering ==
  /\ []SignalOnlyWhenStopping
  /\ [][/\ \A h \in Conns :
             LET p == conn[h].stop.cur IN
             /\ (p # 0 /\ conn'[h].stop.cur # p) => (procs[p].stopping /\ procs[p].done)
             /\ (At(h, "stopWait") /\ ~procs[p].done /\ conn'[h] # conn[h])
                  => /\ conn'[h].pc = "stopKilled" /\ conn'[h].stop.cur = p
                     /\ procs[p].stopping /\ ~procs'[p].alive
        /\ LET p == mainStop.cur IN
             /\ (p # 0 /\ mainStop'.cur # p) => (procs[p].stopping /\ procs[p].done)
             /\ (mainPc = "stopWait" /\ ~procs[p].done /\ mainPc' # mainPc)
                  => /\ mainPc' = "stopKilled" /\ mainStop'.cur = p
                     /\ procs[p].stopping /\ ~procs'[p].alive]_vars

\* a Stop has sent SIGINT and then SIGKILL to a child that ignored the first, done has been
\* closed, and the Stop is about to return
C30_Witness ==
  \/ \E h \in Conns :
       /\ At(h, "stopKilled")
       /\ procs[conn[h].stop.cur].stopping /\ procs[conn[h].stop.cur].signaled
       /\ procs[conn[h].stop.cur].done
  \/ /\ mainPc = "stopKilled"
     /\ procs[mainStop.cur].stopping /\ procs[mainStop.cur].signaled
     /\ procs[mainStop.cur].done

\* C31. At most one request is in flight on a session-based client at any time, and a
\* request is written on it only when none is in flight.
C31_PinnedSerialized ==
  /\ [](\A c \in DOMAIN clientObjs :
          clientObjs[c].sessionBased => Cardinality(InFlight(c)) <= 1)
  /\ [][\A h \in Conns :
          (At(h, "request") /\ conn'[h].pc = "awaiting"
             /\ clientObjs[conn[h].client].sessionBased)
            => InFlight(conn[h].client) = {}]_vars

\* one handler's request is in flight on a session-based client while another handler
\* holds the same client and is about to send
C31_Witness ==
  \E h1, h2 \in Conns :
    /\ h1 # h2 /\ conn[h1].client = conn[h2].client
    /\ At(h1, "awaiting") /\ At(h2, "request")
    /\ clientObjs[conn[h1].client].sessionBased

\* C32. No step of the handler of a reload command changes the supervisor: the tracked
\* process map, every LocalProcess and the monitors are as before, whatever the new config
\* says about local servers.
C32_ReloadLeavesSupervisor ==
  [][\A h \in Conns :
       (conn[h].st = "running" /\ Dispatch(conn[h].cmd) = "reload" /\ conn'[h] # conn[h])
         => UNCHANGED <<processes, procs, monitor>>]_vars

\* a reload has installed a config without s2 while s2's child is tracked and running
C32_Witness ==
  /\ \E h \in Conns :
       conn[h].st = "closed" /\ conn[h].cmd.Action = "reload" /\ conn[h].resp.OK
  /\ ~config["s2"].present
  /\ processes["s2"] # 0 /\ procs[processes["s2"]].alive

\* a reload has installed a config that gives s1 a local config, and s1 has no process
C32_LocalAdded ==
  /\ \E h \in Conns :
       conn[h].st = "closed" /\ conn[h].cmd.Action = "reload" /\ conn[h].resp.OK
  /\ config["s1"].local /\ processes["s1"] = 0 /\ mainPc = "accept"

\* Run has returned after a complete cleanup: every child the supervisor started has
\* exited, no client is left in the map, the socket and PID files are gone
CleanupComplete ==
  /\ mainPc = "stopped"
  /\ \A p \in DOMAIN procs : procs[p].started => ~procs[p].alive
  /\ \A n \in Names : clients[n] = 0
  /\ ~socketFile /\ ~pidFile

\* C33. The signal goroutine, on SIGTERM or SIGINT, sets running to false and closes the
\* listener; from the delivery of the signal on, the daemon eventually leaves the accept
\* loop and completes its cleanup: local processes stopped, clients closed, socket and PID
\* files removed.
C33_SignalShutsDown ==
  /\ [][(sigPending = "pending" /\ sigPending' = "handled")
          => (~running' /\ listener' = "closed")]_vars
  /\ (sigPending = "pending") ~> CleanupComplete

\* C33 when no shutdown command is sent to the daemon
C33_SignalAlone ==
  (sigPending = "pending" /\ \A h \in Conns : conn[h].cmd.Action # "shutdown")
    ~> (CleanupComplete \/ \E h \in Conns : conn[h].cmd.Action = "shutdown")


\* C34. Completion of the OAuth callback is one-shot: for any number of requests reaching
\* /callback during one flow the done channel is closed at most once, and a later callback
\* neither signals again nor faults.
C34_DoneClosedOnce ==
  /\ oauth.pc # "panic"
  /\ Cardinality({k \in 1..MaxCallbacks : oauth.cb[k].pc = "closed"}) <= 1

\* the MCPClient instances constructed so far for a server name
ConstructedFor(name) == {i \in 1..Len(clientObjs) : clientObjs[i].serverName = name}
\* the handlers that hold a client returned by getClient and have not answered yet
Holding == {h \in Conns : conn[h].st = "running" /\ conn[h].client # 0}

\* C35. With no reload or shutdown, under any interleaving of concurrent tools/call handlers
\* for one configured server name exactly one MCPClient is constructed for that name, and
\* every handler obtains that instance.
C35_OneClientPerServer ==
  /\ \A n \in Names : Cardinality(ConstructedFor(n)) <= 1
  /\ \A h \in Holding :
       /\ conn[h].client = clients[conn[h].cmd.Server]
       /\ ConstructedFor(conn[h].cmd.Server) = {conn[h].client}
\* C35 happens: a tools handler and a call handler hold the client of s1 at the same time
C35_Witness ==
  \E h1, h2 \in Holding :
    /\ conn[h1].cmd.Action = "tools" /\ conn[h2].cmd.Action = "call"
    /\ conn[h1].cmd.Server = "s1" /\ conn[h2].cmd.Server = "s1"
    /\ conn[h1].client = conn[h2].client


\* the client recorded for a name was constructed from the current config entry of that name
BuiltFromCurrent(n) ==
  LET c == clientObjs[clients[n]] IN
  /\ config[n].present
  /\ c.serverName = n /\ ~c.closed
  /\ c.url = config[n].url
  /\ c.sessionBased = config[n].sessionBased
  /\ c.persistent = config[n].sessionBased

\* C36. In every state in which no reload is mid-execution, each entry of the clients map
\* names a server of the current config, and its client was constructed from a spec whose
\* url and sessionBased (hence pinned or pooled transport) are those of the current entry.
\* reloadConfig changes d.config and d.clients inside one critical section, so the states
\* between its LoadConfig and that section are covered as well.
C36_ClientsMatchConfig == \A n \in Names : clients[n] # 0 => BuiltFromCurrent(n)
\* C36 happens: a reload has installed a config in which s1 has another url, and getClient
\* has since constructed the client of s1 from that config
C36_Witness ==
  /\ clients["s1"] # 0 /\ config["s1"].url = "urlB"
  /\ clientObjs[clients["s1"]].url = "urlB"
  /\ \E h \in Conns : conn[h].noteG.kind = "reload" /\ ~conn[h].noteG.same

\* a step in which handler h sends an upstream request (initialize, tools/list, tools/call)
\* through the client it obtained from getClient
SendsUpstream(h) == InitializeRPC(h) \/ RequestToolsList(h) \/ RequestToolsCall(h)

\* C37. A client that reload or shutdown has closed and evicted from the clients map is
\* never used afterwards to send a new upstream request: no tools or call handler that
\* raced with the eviction sends a request through it after the reload has completed.
C37_EvictedClientUnused ==
  [][\A h \in Conns : SendsUpstream(h) => ~clientObjs[conn[h].client].closed]_vars


\* C38. No lost update in sessions.json: when Initialize runs concurrently for two different
\* servers that are not session-based and each receives a non-empty session id, the stored
\* mapping afterwards holds the id of both (every handler that has saved an id finds the
\* entry of its server still there).
C38_NoLostSessionUpdate ==
  \A h \in Conns : conn[h].savedG # "" => sessions[conn[h].savedG] # ""


\* the children started for a server name that are alive
LiveChildren(n) == {p \in DOMAIN procs : procs[p].Name = n /\ procs[p].alive}
\* the processes a StopAll in progress has taken out of the map and is still going to stop
\* or is stopping
BeingStopped ==
  (IF Alive THEN mainStop.set \cup {mainStop.cur} ELSE {})
  \cup UNION {IF Alive /\ conn[h].st = "running" THEN conn[h].stop.set \cup {conn[h].stop.cur}
                                                 ELSE {} : h \in Conns}

\* C39 as claimed. At any time at most one child started for a given server name is alive,
\* and every live child is the one recorded in the supervisor's process map.
C39_OneLiveChild ==
  \A n \in Names :
    /\ Cardinality(LiveChildren(n)) <= 1
    /\ \A p \in LiveChildren(n) : processes[n] = p
\* C39. At most one child per server name is alive, and every live child is recorded in the
\* process map or, while a StopAll is between clearing the map and stopping its snapshot,
\* is in that snapshot: so that StopAll stops every live child.
C39_LiveChildTracked ==
  \A n \in Names :
    /\ Cardinality(LiveChildren(n)) <= 1
    /\ \A p \in LiveChildren(n) : processes[n] = p \/ p \in BeingStopped
\* C39, first half
C39_AtMostOneLive == \A n \in Names : Cardinality(LiveChildren(n)) <= 1

\* a step of the handler of a reload command taken while servers.json does not parse
FailedReloadStep(h) ==
  /\ At(h, "read") /\ Dispatch(conn[h].cmd) = "reload"
  /\ ~configFile.valid
  /\ conn'[h] # conn[h]

\* C40. If loading the new config fails during reload, the command is answered with an
\* error Response of code MCP_ERROR, and the daemon's config, clients map and tools cache
\* are exactly as before the command.
C40_FailedReload ==
  [][\A h \in Conns :
       FailedReloadStep(h)
         => /\ conn'[h].st = "closed" /\ conn'[h].resp = errResponse("MCP_ERROR")
            /\ config' = config /\ clients' = clients /\ clientObjs' = clientObjs
            /\ toolsCache' = toolsCache]_vars
\* C40 happens: a reload that found a broken servers.json has been answered MCP_ERROR while
\* the daemon holds a client and a cached tool list for s1
C40_Witness ==
  /\ ~configFile.valid
  /\ clients["s1"] # 0 /\ toolsCache["s1"].present
  /\ \E h \in Conns : /\ conn[h].st = "closed" /\ conn[h].cmd.Action = "reload"
                       /\ conn[h].resp = errResponse("MCP_ERROR")


====
